---- MODULE Spec2Model ----
(***************************************************************************)
(* Haptic device control of try_openai_agent: the three device            *)
(* controllers (HTTP ArduinoController, WebSocketController,              *)
(* SerialController) driven by one caller, with the WebSocket variant's   *)
(* two background loops, and the controller managers' batch operations.   *)
(*                                                                         *)
(* A transport call (GET, POST, WebSocket frame, serial write) is a step  *)
(* of its own whose outcome the environment chooses.  asyncio runs one    *)
(* task at a time and switches tasks only at an await that suspends, so a *)
(* run of code between two suspending awaits is one atomic step.          *)
(***************************************************************************)
EXTENDS Integers, Sequences, FiniteSets, TLC

\* Largest retry_count the model configures a controller with.
MaxRetryCount == 3

\* Number of device ids a manager can register.
MaxDevices == 3

\* Number of device ids the HTTP API and the integration are called with.
MaxApiDevices == 2

VARIABLES
    variant,      \* which controller class the caller drives
    retry_count,  \* config.retry_count
    ctl,          \* the controller object's fields
    bg,           \* the WebSocket controller's background tasks
    opName,       \* the controller method the caller is in (or was last in)
    pc,           \* the caller's position in that method; "done" once it has returned
    attempt,      \* the retry loop's variable
    result,       \* the value the method returned
    raised,       \* an exception left a controller method towards the caller
    ioCount,      \* transport calls the current method has made
    posts,        \* pattern/stop commands the current method has put on the transport
    lastIo,       \* outcome of the current method's latest transport call
    pre,          \* ctl as it was when the current method was called
    mgr,          \* a controller manager and the batch operation it is running
    app,          \* the HTTP API's device list, haptic_feedback and websocket_manager
    vp,           \* a call of the vibration pattern functions: arguments and result
    rp            \* a call of run_pipeline: its ctx, its error and where it is

ctlVars == <<variant, retry_count, ctl, bg, opName, pc, attempt, result, raised,
             ioCount, posts, lastIo, pre>>

vars == <<ctlVars, mgr, app, vp, rp>>

Variants == {"http", "ws", "serial"}
Results == {"-", "True", "False", "None", "Status"}

\* BaseController.__init__ / WebSocketController.__init__ / SerialController.__init__
NewController(p) ==
    [connected |-> FALSE, session |-> "none", session_owner |-> FALSE,
     ws |-> "none", heartbeat_task |-> FALSE, status_monitor_task |-> FALSE,
     serial_connection |-> "none", port |-> p]

\* No background task exists before the first connect().
NoTasks == [hb |-> "none", mon |-> "none", hbCancel |-> FALSE, hbLive |-> 0, monLive |-> 0]

Cur == [c |-> ctl, b |-> bg]

Put(n) == ctl' = n.c /\ bg' = n.b

\* BaseController._ensure_session
EnsureSession(c) ==
    IF c.session = "none"
    THEN [c EXCEPT !.session = "open", !.session_owner = TRUE]
    ELSE c

\* BaseController._cleanup_session
CleanupSession(c) ==
    IF c.session # "none" /\ c.session_owner
    THEN [c EXCEPT !.session = "none", !.session_owner = FALSE]
    ELSE c

\* A method is entered: the caller is between two calls.
Enter(v, name) ==
    /\ variant = v
    /\ pc = "done"
    /\ opName' = name
    /\ pre' = ctl
    /\ attempt' = 0
    /\ UNCHANGED <<variant, retry_count, mgr, app, vp, rp>>

\* The method returns r.
Return(r) == pc' = "done" /\ result' = r /\ UNCHANGED raised

\* The method goes on to the await named p.
Goto(p) == pc' = p /\ result' = "-" /\ UNCHANGED raised

\* An exception no except clause of the method catches leaves it.
Escape == pc' = "done" /\ result' = "-" /\ raised' = TRUE

\* The caller is at the await named p of method name.
At(v, name, p) ==
    /\ variant = v
    /\ opName = name
    /\ pc = p
    /\ UNCHANGED <<variant, retry_count, opName, pre, mgr, app, vp, rp>>

NoIo == ioCount' = 0 /\ posts' = 0 /\ lastIo' = "none"

Io(outcome) == ioCount' = ioCount + 1 /\ lastIo' = outcome

\* What a transport call can end in: an answer ("200", "non200", "ok", "notok")
\* or an exception: aiohttp.ClientError / serial.SerialException ("neterr"),
\* asyncio.TimeoutError ("timeout"), any other Exception such as a malformed
\* body or frame or an attribute of None ("other"), asyncio.CancelledError
\* ("cancel", a BaseException).
Exceptions == {"neterr", "timeout", "other", "cancel"}

\* What "except Exception" catches.
ExceptException == {"neterr", "timeout", "other"}

HttpOutcomes == {"200", "non200", "neterr", "timeout", "other"}
RecvOutcomes == {"ok", "notok", "timeout", "other"}
UpgradeOutcomes == {"ok", "neterr", "timeout"}

IoOf(out) == IF out \in {"200", "ok"} THEN "ok" ELSE "fail"

\* The try blocks of ArduinoController: each has "except aiohttp.ClientError",
\* "except asyncio.TimeoutError" and "except Exception"; disconnect has none.
HttpCatches(name) ==
    IF name \in {"connect", "send_pattern", "stop", "get_status"}
    THEN ExceptException
    ELSE {}

\* WsCatches with stop_vibration's try block left out
WsCatchesNotInStop(name) ==
    IF name \in {"connect", "send_pattern", "get_status"}
    THEN ExceptException
    ELSE {}

\* The try blocks of WebSocketController: each has "except Exception";
\* disconnect has none.
WsCatches(name) ==
    IF name \in {"connect", "send_pattern", "stop_vibration", "get_status"}
    THEN ExceptException
    ELSE {}

\* The try blocks of SerialController: "except serial.SerialException" and
\* "except Exception"; stop() runs send_pattern's; get_status has none.
SerialCatches(name) ==
    IF name \in {"connect", "disconnect", "send_pattern", "stop"}
    THEN ExceptException
    ELSE {}

Catches(v, name) ==
    CASE v = "http" -> HttpCatches(name)
      [] v = "ws" -> WsCatches(name)
      [] v = "serial" -> SerialCatches(name)

\* The transport call of method name ended in an exception no clause catches.
Uncaught(v, name, out) == out \in Exceptions /\ out \notin Catches(v, name)

(***************************************************************************)
(* ArduinoController (HTTP)                                                *)
(***************************************************************************)

\* ArduinoController.connect, up to the GET /status
HttpConnectCall ==
    /\ Enter("http", "connect")
    /\ NoIo
    /\ IF ctl.connected
       THEN Return("True") /\ UNCHANGED <<ctl, bg>>
       ELSE Goto("connect_get") /\ ctl' = EnsureSession(ctl) /\ UNCHANGED bg

\* ArduinoController.connect, the answer to GET /status
HttpConnectGet ==
    /\ At("http", "connect", "connect_get")
    /\ \E out \in HttpOutcomes :
        /\ Io(IoOf(out))
        /\ CASE out = "200" ->
                  ctl' = [ctl EXCEPT !.connected = TRUE] /\ Return("True")
             [] Uncaught("http", "connect", out) ->
                  UNCHANGED ctl /\ Escape
             [] OTHER ->
                  ctl' = CleanupSession(ctl) /\ Return("False")
    /\ UNCHANGED <<bg, attempt, posts>>

\* ArduinoController.disconnect
HttpDisconnect ==
    /\ Enter("http", "disconnect")
    /\ NoIo
    /\ IF ~ctl.connected
       THEN UNCHANGED ctl
       ELSE ctl' = [CleanupSession(ctl) EXCEPT !.connected = FALSE]
    /\ Return("True")
    /\ UNCHANGED bg

\* LoopRuns with the bound off by one: range(retry_count + 1)
LoopRunsOnceMore(a) == a <= retry_count

\* The retry loop's header: for attempt in range(retry_count)
LoopRuns(a) == a < retry_count

\* HttpSendCall with the session ensured before the connection check
HttpSendCallEnsuresFirst ==
    /\ Enter("http", "send_pattern")
    /\ NoIo
    /\ ctl' = EnsureSession(ctl)
    /\ UNCHANGED bg
    /\ IF ~ctl.connected
       THEN Return("False")
       ELSE IF LoopRuns(0) THEN Goto("send_post") ELSE Return("False")

\* ArduinoController.send_pattern, up to the first POST
HttpSendCall ==
    /\ Enter("http", "send_pattern")
    /\ NoIo
    /\ IF ~ctl.connected
       THEN Return("False") /\ UNCHANGED <<ctl, bg>>
       ELSE /\ ctl' = EnsureSession(ctl)
            /\ UNCHANGED bg
            /\ IF LoopRuns(0) THEN Goto("send_post") ELSE Return("False")

\* ArduinoController.send_pattern, the answer to one POST / and, after a
\* failure, sleep(retry_delay) and the next round of the loop
HttpSendPost ==
    /\ At("http", "send_pattern", "send_post")
    /\ \E out \in HttpOutcomes :
        /\ Io(IoOf(out))
        /\ posts' = posts + 1
        /\ CASE out = "200" ->
                  Return("True") /\ UNCHANGED attempt
             [] Uncaught("http", "send_pattern", out) ->
                  Escape /\ UNCHANGED attempt
             [] OTHER ->
                  IF LoopRuns(attempt + 1)
                  THEN Goto("send_post") /\ attempt' = attempt + 1
                  ELSE Return("False") /\ UNCHANGED attempt
    /\ UNCHANGED <<ctl, bg>>

\* ArduinoController.stop, up to the POST /stop
HttpStopCall ==
    /\ Enter("http", "stop")
    /\ NoIo
    /\ IF ~ctl.connected
       THEN Return("False") /\ UNCHANGED <<ctl, bg>>
       ELSE Goto("stop_post") /\ ctl' = EnsureSession(ctl) /\ UNCHANGED bg

\* HttpStopPost with send_pattern's retry loop around the POST
HttpStopPostRetries ==
    /\ At("http", "stop", "stop_post")
    /\ \E out \in HttpOutcomes :
        /\ Io(IoOf(out))
        /\ posts' = posts + 1
        /\ CASE out = "200" -> Return("True") /\ UNCHANGED attempt
             [] Uncaught("http", "stop", out) -> Escape /\ UNCHANGED attempt
             [] OTHER ->
                  IF LoopRuns(attempt + 1)
                  THEN Goto("stop_post") /\ attempt' = attempt + 1
                  ELSE Return("False") /\ UNCHANGED attempt
    /\ UNCHANGED <<ctl, bg>>

\* ArduinoController.stop, the answer to the POST /stop: there is no loop
HttpStopPost ==
    /\ At("http", "stop", "stop_post")
    /\ \E out \in HttpOutcomes :
        /\ Io(IoOf(out))
        /\ posts' = posts + 1
        /\ CASE out = "200" -> Return("True")
             [] Uncaught("http", "stop", out) -> Escape
             [] OTHER -> Return("False")
    /\ UNCHANGED <<ctl, bg, attempt>>

\* ArduinoController.get_status, up to the GET /status
HttpStatusCall ==
    /\ Enter("http", "get_status")
    /\ NoIo
    /\ IF ~ctl.connected
       THEN Return("None") /\ UNCHANGED <<ctl, bg>>
       ELSE Goto("status_get") /\ ctl' = EnsureSession(ctl) /\ UNCHANGED bg

\* ArduinoController.get_status, the answer to GET /status ("other": the body
\* is no JSON)
HttpStatusGet ==
    /\ At("http", "get_status", "status_get")
    /\ \E out \in HttpOutcomes :
        /\ Io(IoOf(out))
        /\ CASE out = "200" -> Return("Status")
             [] Uncaught("http", "get_status", out) -> Escape
             [] OTHER -> Return("None")
    /\ UNCHANGED <<ctl, bg, attempt, posts>>

HttpNext ==
    \/ HttpConnectCall
    \/ HttpConnectGet
    \/ HttpDisconnect
    \/ HttpSendCall
    \/ HttpSendPost
    \/ HttpStopCall
    \/ HttpStopPost
    \/ HttpStatusCall
    \/ HttpStatusGet

(***************************************************************************)
(* WebSocketController: the methods                                        *)
(***************************************************************************)

\* WebSocketController._start_background_tasks.  A task that is created runs
\* its loop header while connected is still True and then waits: the
\* heartbeat in sleep(heartbeat_interval), the monitor in ws.receive().
StartBackgroundTasks(n) ==
    LET newHb == ~n.c.heartbeat_task
        newMon == ~n.c.status_monitor_task
    IN [c |-> [n.c EXCEPT !.heartbeat_task = TRUE, !.status_monitor_task = TRUE],
        b |-> [n.b EXCEPT
                 !.hb = IF newHb THEN "sleep" ELSE @,
                 !.hbLive = IF newHb THEN @ + 1 ELSE @,
                 !.mon = IF newMon THEN "recv" ELSE @,
                 !.monLive = IF newMon THEN @ + 1 ELSE @]]

\* StopBackgroundTasks that clears the monitor's handle without cancelling it
StopBackgroundTasksLeavesMonitor(n, self) ==
    LET hbAlive == n.c.heartbeat_task /\ n.b.hb # "none"
    IN [c |-> [n.c EXCEPT !.heartbeat_task = FALSE, !.status_monitor_task = FALSE],
        b |-> [n.b EXCEPT
                 !.hb = IF hbAlive /\ self # "hb" THEN "none" ELSE @,
                 !.hbCancel = IF hbAlive /\ self = "hb" THEN TRUE ELSE @,
                 !.hbLive = IF hbAlive /\ self # "hb" THEN @ - 1 ELSE @]]

\* WebSocketController._stop_background_tasks, called by task self ("caller" or
\* "hb").  A cancelled task that waits at an await gets CancelledError there
\* and leaves its loop; a task that cancels itself runs on until its next
\* suspending await.
StopBackgroundTasks(n, self) ==
    LET hbAlive == n.c.heartbeat_task /\ n.b.hb # "none"
        monAlive == n.c.status_monitor_task /\ n.b.mon # "none"
    IN [c |-> [n.c EXCEPT !.heartbeat_task = FALSE, !.status_monitor_task = FALSE],
        b |-> [n.b EXCEPT
                 !.hb = IF hbAlive /\ self # "hb" THEN "none" ELSE @,
                 !.hbCancel = IF hbAlive /\ self = "hb" THEN TRUE ELSE @,
                 !.hbLive = IF hbAlive /\ self # "hb" THEN @ - 1 ELSE @,
                 !.mon = IF monAlive THEN "none" ELSE @,
                 !.monLive = IF monAlive THEN @ - 1 ELSE @]]

\* WsDisconnect with the session closed but the attribute not cleared
WsDisconnectKeepsSession(n, self) ==
    IF ~n.c.connected
    THEN n
    ELSE LET m == StopBackgroundTasks(n, self)
         IN [m EXCEPT !.c.ws = "none", !.c.session = "closed", !.c.connected = FALSE]

\* WebSocketController.disconnect run to its end by a task that is not
\* cancelled: ws.close() and session.close() swallow transport errors.
WsDisconnect(n, self) ==
    IF ~n.c.connected
    THEN n
    ELSE LET m == StopBackgroundTasks(n, self)
         IN [m EXCEPT !.c.ws = "none", !.c.session = "none", !.c.connected = FALSE]

\* WebSocketController.connect from self.session = ClientSession() to the GET /status
WsConnectBegin(n) == [n EXCEPT !.c.session = "open"]

\* WsConnectGetStep going on to ws_connect whatever status the probe answered
WsConnectGetStepAnyStatus(n, out) ==
    CASE out \in {"200", "non200"} -> [n |-> n, go |-> "next"]
      [] Uncaught("ws", "connect", out) -> [n |-> n, go |-> "raise"]
      [] OTHER -> [n |-> [n EXCEPT !.c.session = "none"], go |-> "fail"]

\* WebSocketController.connect, the answer to GET /status: "next" goes on to
\* ws_connect, "fail" returns False, "raise" lets the exception through
WsConnectGetStep(n, out) ==
    CASE out = "200" -> [n |-> n, go |-> "next"]
      [] Uncaught("ws", "connect", out) -> [n |-> n, go |-> "raise"]
      [] OTHER -> [n |-> [n EXCEPT !.c.session = "none"], go |-> "fail"]

\* WsConnectUpgradeStep with the session left open when ws_connect fails
WsConnectUpgradeStepLeaks(n, out) ==
    CASE out = "ok" ->
           [n |-> StartBackgroundTasks([n EXCEPT !.c.ws = "open", !.c.connected = TRUE]),
            go |-> "ok"]
      [] Uncaught("ws", "connect", out) -> [n |-> n, go |-> "raise"]
      [] OTHER -> [n |-> n, go |-> "fail"]

\* WebSocketController.connect, the answer to ws_connect
WsConnectUpgradeStep(n, out) ==
    CASE out = "ok" ->
           [n |-> StartBackgroundTasks([n EXCEPT !.c.ws = "open", !.c.connected = TRUE]),
            go |-> "ok"]
      [] Uncaught("ws", "connect", out) -> [n |-> n, go |-> "raise"]
      [] OTHER -> [n |-> [n EXCEPT !.c.session = "none"], go |-> "fail"]

\* not self.connected or not self.ws or self.ws.closed
SocketGone(c) == ~c.connected \/ c.ws = "none" \/ c.ws = "closed"

\* A frame put on the socket: with no socket or a closed one the call raises
FrameOutcomes(c) == IF c.ws = "open" THEN {"ok", "neterr"} ELSE {"other"}

\* A frame awaited from the socket
RecvOutcomesOf(c) == IF c.ws = "open" THEN RecvOutcomes ELSE {"other"}

\* WebSocketController.connect, up to the GET /status
WsConnectCall ==
    /\ Enter("ws", "connect")
    /\ NoIo
    /\ IF ctl.connected
       THEN Return("True") /\ UNCHANGED <<ctl, bg>>
       ELSE Goto("connect_get") /\ Put(WsConnectBegin(Cur))

\* WebSocketController.connect, the answer to GET /status
WsConnectGet ==
    /\ At("ws", "connect", "connect_get")
    /\ \E out \in HttpOutcomes :
        LET r == WsConnectGetStep(Cur, out) IN
        /\ Io(IoOf(out))
        /\ Put(r.n)
        /\ CASE r.go = "next" -> Goto("connect_upgrade")
             [] r.go = "fail" -> Return("False")
             [] r.go = "raise" -> Escape
    /\ UNCHANGED <<attempt, posts>>

\* WebSocketController.connect, the answer to ws_connect
WsConnectUpgrade ==
    /\ At("ws", "connect", "connect_upgrade")
    /\ \E out \in UpgradeOutcomes :
        LET r == WsConnectUpgradeStep(Cur, out) IN
        /\ Io(IoOf(out))
        /\ Put(r.n)
        /\ CASE r.go = "ok" -> Return("True")
             [] r.go = "fail" -> Return("False")
             [] r.go = "raise" -> Escape
    /\ UNCHANGED <<attempt, posts>>

\* WebSocketController.disconnect called by the caller
WsDisconnectCall ==
    /\ Enter("ws", "disconnect")
    /\ NoIo
    /\ Put(WsDisconnect(Cur, "caller"))
    /\ Return("True")

\* WebSocketController.send_pattern, up to the first send_json
WsSendCall ==
    /\ Enter("ws", "send_pattern")
    /\ NoIo
    /\ UNCHANGED <<ctl, bg>>
    /\ IF ~ctl.connected
       THEN Return("False")
       ELSE IF LoopRuns(0) THEN Goto("send_frame") ELSE Return("False")

\* send_pattern after a failed attempt: sleep(retry_delay) and go round, or fall
\* out of the loop and return False
WsRetryOrGiveUp ==
    IF attempt < retry_count - 1
    THEN Goto("retry_sleep")
    ELSE Return("False")

\* send_pattern's except branch without the reconnect
WsSendOnErrorNoReconnect(out) ==
    CASE Uncaught("ws", "send_pattern", out) ->
           UNCHANGED <<ctl, bg>> /\ Escape
      [] OTHER ->
           UNCHANGED <<ctl, bg>> /\ WsRetryOrGiveUp

\* send_pattern's except branch: with the socket gone, disconnect() and connect()
WsSendOnError(out) ==
    CASE Uncaught("ws", "send_pattern", out) ->
           UNCHANGED <<ctl, bg>> /\ Escape
      [] SocketGone(ctl) /\ ~Uncaught("ws", "send_pattern", out) ->
           Put(WsConnectBegin(WsDisconnect(Cur, "caller"))) /\ Goto("re_get")
      [] OTHER ->
           UNCHANGED <<ctl, bg>> /\ WsRetryOrGiveUp

\* WebSocketController.send_pattern, ws.send_json of one attempt
WsSendFrame ==
    /\ At("ws", "send_pattern", "send_frame")
    /\ \E out \in FrameOutcomes(ctl) :
        /\ Io(IoOf(out))
        /\ posts' = posts + 1
        /\ IF out = "ok"
           THEN Goto("send_recv") /\ UNCHANGED <<ctl, bg>>
           ELSE WsSendOnError(out)
    /\ UNCHANGED attempt

\* WebSocketController.send_pattern, ws.receive_json of one attempt
WsSendRecv ==
    /\ At("ws", "send_pattern", "send_recv")
    /\ \E out \in RecvOutcomesOf(ctl) :
        /\ Io(IoOf(out))
        /\ CASE out = "ok" -> Return("True") /\ UNCHANGED <<ctl, bg>>
             [] out = "notok" -> WsRetryOrGiveUp /\ UNCHANGED <<ctl, bg>>
             [] OTHER -> WsSendOnError(out)
    /\ UNCHANGED <<attempt, posts>>

\* send_pattern's reconnect, the answer to GET /status
WsSendReGet ==
    /\ At("ws", "send_pattern", "re_get")
    /\ \E out \in HttpOutcomes :
        LET r == WsConnectGetStep(Cur, out) IN
        /\ Io(IoOf(out))
        /\ Put(r.n)
        /\ CASE r.go = "next" -> Goto("re_upgrade")
             [] r.go = "fail" -> Return("False")
             [] r.go = "raise" -> Escape
    /\ UNCHANGED <<attempt, posts>>

\* send_pattern's reconnect, the answer to ws_connect
WsSendReUpgrade ==
    /\ At("ws", "send_pattern", "re_upgrade")
    /\ \E out \in UpgradeOutcomes :
        LET r == WsConnectUpgradeStep(Cur, out) IN
        /\ Io(IoOf(out))
        /\ Put(r.n)
        /\ CASE r.go = "ok" -> WsRetryOrGiveUp
             [] r.go = "fail" -> Return("False")
             [] r.go = "raise" -> Escape
    /\ UNCHANGED <<attempt, posts>>

\* send_pattern, the end of sleep(retry_delay): the next round of the loop
WsRetrySleep ==
    /\ At("ws", "send_pattern", "retry_sleep")
    /\ attempt' = attempt + 1
    /\ Goto("send_frame")
    /\ UNCHANGED <<ctl, bg, ioCount, posts, lastIo>>

\* stop_vibration / get_status: the value returned when the request failed
\* and when it was answered
CmdFailed(name) == IF name = "get_status" THEN "None" ELSE "False"
CmdAnswered(name) == IF name = "get_status" THEN "Status" ELSE "True"

\* WebSocketController.stop_vibration / get_status, up to send_str
WsCmdCall(name) ==
    /\ Enter("ws", name)
    /\ NoIo
    /\ UNCHANGED <<ctl, bg>>
    /\ IF ~ctl.connected THEN Return(CmdFailed(name)) ELSE Goto("cmd_frame")

\* WebSocketController.stop_vibration / get_status, ws.send_str: there is no loop
WsCmdFrame(name) ==
    /\ At("ws", name, "cmd_frame")
    /\ \E out \in FrameOutcomes(ctl) :
        /\ Io(IoOf(out))
        /\ posts' = posts + 1
        /\ CASE out = "ok" -> Goto("cmd_recv")
             [] Uncaught("ws", name, out) -> Escape
             [] OTHER -> Return(CmdFailed(name))
    /\ UNCHANGED <<ctl, bg, attempt>>

\* WebSocketController.stop_vibration / get_status, ws.receive_json
WsCmdRecv(name) ==
    /\ At("ws", name, "cmd_recv")
    /\ \E out \in RecvOutcomesOf(ctl) :
        /\ Io(IoOf(out))
        /\ CASE out = "ok" -> Return(CmdAnswered(name))
             [] Uncaught("ws", name, out) -> Escape
             [] OTHER -> Return(CmdFailed(name))
    /\ UNCHANGED <<ctl, bg, attempt, posts>>

WsStopCall == WsCmdCall("stop_vibration")
WsStopFrame == WsCmdFrame("stop_vibration")
WsStopRecv == WsCmdRecv("stop_vibration")
WsStatusCall == WsCmdCall("get_status")
WsStatusFrame == WsCmdFrame("get_status")
WsStatusRecv == WsCmdRecv("get_status")

callerVars == <<opName, pc, attempt, result, raised, ioCount, posts, lastIo, pre, mgr,
                app, vp, rp>>

\* The device or the network closes the socket: self.ws.closed becomes True
PeerClose ==
    /\ variant = "ws"
    /\ ctl.ws = "open"
    /\ ctl' = [ctl EXCEPT !.ws = "closed"]
    /\ UNCHANGED <<variant, retry_count, bg>>
    /\ UNCHANGED callerVars

(***************************************************************************)
(* WebSocketController: the heartbeat loop and the status-monitor loop     *)
(***************************************************************************)

\* The heartbeat task ends: break, or an exception that leaves the coroutine
HbExit(n) == [n EXCEPT !.b.hb = "none", !.b.hbCancel = FALSE, !.b.hbLive = @ - 1]

\* _heartbeat_loop's header: while self.connected, then sleep(heartbeat_interval)
HbLoopTop(n) == IF n.c.connected THEN [n EXCEPT !.b.hb = "sleep"] ELSE HbExit(n)

\* _heartbeat_loop's except clauses: CancelledError breaks, any other
\* exception is logged and followed by sleep(1)
HbOnError(n, exc) == IF exc = "cancel" THEN HbExit(n) ELSE [n EXCEPT !.b.hb = "errsleep"]

\* disconnect() run by the heartbeat task.  _stop_background_tasks cancels the
\* running task itself, so CancelledError is raised at the first await that
\* suspends.  ws.close() returns at once on a socket that is closed and
\* suspends on an open one; whether session.close() suspends depends on the
\* aiohttp release (susp).
HbDisconnect(n, susp) ==
    IF ~n.c.connected
    THEN [n |-> n, exc |-> "none"]
    ELSE LET m == StopBackgroundTasks(n, "hb")
         IN IF m.c.ws = "open" /\ m.b.hbCancel
            THEN [n |-> [m EXCEPT !.c.ws = "closed"], exc |-> "cancel"]
            ELSE IF m.c.session # "none" /\ susp /\ m.b.hbCancel
                 THEN [n |-> [m EXCEPT !.c.ws = "none", !.c.session = "closed"],
                       exc |-> "cancel"]
                 ELSE [n |-> [m EXCEPT !.c.ws = "none", !.c.session = "none",
                                       !.c.connected = FALSE],
                       exc |-> "none"]

\* connect() run by the heartbeat task, up to the GET /status, which suspends:
\* a pending CancelledError is raised there, inside connect's try block
HbConnect(n) ==
    IF n.c.connected
    THEN HbLoopTop(n)
    ELSE LET m == WsConnectBegin(n)
         IN IF ~m.b.hbCancel
            THEN [m EXCEPT !.b.hb = "get"]
            ELSE IF Uncaught("ws", "connect", "cancel")
                 THEN HbOnError(m, "cancel")
                 ELSE HbExit([m EXCEPT !.c.session = "none"])

\* _heartbeat_loop after sleep(heartbeat_interval): with the socket gone,
\* disconnect() and connect(); otherwise send_str("status") and wait for the answer
HbIteration(n, susp, out) ==
    IF SocketGone(n.c)
    THEN LET d == HbDisconnect(n, susp)
         IN IF d.exc = "cancel" THEN HbOnError(d.n, "cancel") ELSE HbConnect(d.n)
    ELSE IF out = "ok"
         THEN [n EXCEPT !.b.hb = "recv"]
         ELSE HbOnError(n, out)

\* The heartbeat task wakes from sleep(heartbeat_interval)
HbWake ==
    /\ variant = "ws"
    /\ bg.hb = "sleep"
    /\ \E susp \in BOOLEAN, out \in FrameOutcomes(ctl) :
         Put(HbIteration(Cur, susp, out))
    /\ UNCHANGED <<variant, retry_count>>
    /\ UNCHANGED callerVars

\* The heartbeat task resumes from one of its other awaits
HbResumeStep(n, out) ==
    CASE n.b.hb = "recv" ->
           IF out \in RecvOutcomesOf(n.c)
           THEN IF out \in Exceptions THEN HbOnError(n, out) ELSE HbLoopTop(n)
           ELSE n
      [] n.b.hb = "errsleep" -> HbLoopTop(n)
      [] n.b.hb = "get" ->
           IF out \in HttpOutcomes
           THEN LET r == WsConnectGetStep(n, out)
                IN CASE r.go = "next" -> [r.n EXCEPT !.b.hb = "upgrade"]
                     [] r.go = "fail" -> HbExit(r.n)
                     [] r.go = "raise" -> HbOnError(r.n, out)
           ELSE n
      [] n.b.hb = "upgrade" ->
           IF out \in UpgradeOutcomes
           THEN LET r == WsConnectUpgradeStep(n, out)
                IN CASE r.go = "ok" -> HbLoopTop(r.n)
                     [] r.go = "fail" -> HbExit(r.n)
                     [] r.go = "raise" -> HbOnError(r.n, out)
           ELSE n
      [] OTHER -> n

\* _heartbeat_loop: the answer to the status request, the end of sleep(1), and
\* the awaits of a connect() it runs
HbResume ==
    /\ variant = "ws"
    /\ bg.hb \in {"recv", "errsleep", "get", "upgrade"}
    /\ \E out \in RecvOutcomes \cup HttpOutcomes \cup UpgradeOutcomes :
         Put(HbResumeStep(Cur, out))
    /\ UNCHANGED <<variant, retry_count>>
    /\ UNCHANGED callerVars

\* The status-monitor task ends
MonExit(n) == [n EXCEPT !.b.mon = "none", !.b.monLive = @ - 1]

\* _status_monitor_loop's header: while self.connected; without an open
\* socket sleep(1), otherwise ws.receive()
MonLoopTop(n) ==
    IF ~n.c.connected
    THEN MonExit(n)
    ELSE IF n.c.ws = "none" \/ n.c.ws = "closed"
         THEN [n EXCEPT !.b.mon = "sleep"]
         ELSE [n EXCEPT !.b.mon = "recv"]

\* What ws.receive() hands the monitor: a text frame, the peer's close frame
\* (the socket is closed by then), a protocol error (aiohttp closes the
\* socket and returns an ERROR message), or an exception
MonOutcomes(c) == IF c.ws = "open" THEN {"text", "error", "other"} ELSE {"close"}

\* _status_monitor_loop, the result of ws.receive()
MonRecv ==
    /\ variant = "ws"
    /\ bg.mon = "recv"
    /\ \E out \in MonOutcomes(ctl) :
         Put(CASE out = "text" -> MonLoopTop(Cur)
               [] out = "close" -> MonLoopTop(Cur)
               [] out = "error" -> MonExit([Cur EXCEPT !.c.ws = "closed"])
               [] out = "other" -> [Cur EXCEPT !.b.mon = "sleep"])
    /\ UNCHANGED <<variant, retry_count>>
    /\ UNCHANGED callerVars

\* _status_monitor_loop, the end of a sleep(1)
MonWake ==
    /\ variant = "ws"
    /\ bg.mon = "sleep"
    /\ Put(MonLoopTop(Cur))
    /\ UNCHANGED <<variant, retry_count>>
    /\ UNCHANGED callerVars

WsNext ==
    \/ WsConnectCall
    \/ WsConnectGet
    \/ WsConnectUpgrade
    \/ WsDisconnectCall
    \/ WsSendCall
    \/ WsSendFrame
    \/ WsSendRecv
    \/ WsSendReGet
    \/ WsSendReUpgrade
    \/ WsRetrySleep
    \/ WsStopCall
    \/ WsStopFrame
    \/ WsStopRecv
    \/ WsStatusCall
    \/ WsStatusFrame
    \/ WsStatusRecv
    \/ PeerClose
    \/ HbWake
    \/ HbResume
    \/ MonRecv
    \/ MonWake

(***************************************************************************)
(* SerialController                                                        *)
(***************************************************************************)

\* SerialController.connect: port detection, serial.Serial(...), the two
\* sleeps and the test pattern written to the port
SerialConnect ==
    /\ Enter("serial", "connect")
    /\ posts' = 0
    /\ UNCHANGED bg
    /\ IF ctl.connected
       THEN NoIo /\ Return("True") /\ UNCHANGED ctl
       ELSE \E out \in (IF ctl.port = "none" THEN {"noport"} ELSE {})
                           \cup {"openfail", "writefail", "ok"} :
              CASE out = "noport" ->
                     /\ ioCount' = 0 /\ lastIo' = "fail"
                     /\ UNCHANGED ctl
                     /\ Return("False")
                [] out = "openfail" ->
                     /\ ioCount' = 1 /\ lastIo' = "fail"
                     /\ ctl' = [ctl EXCEPT !.port = "set"]
                     /\ IF Uncaught("serial", "connect", "neterr")
                        THEN Escape ELSE Return("False")
                [] out = "writefail" ->
                     /\ ioCount' = 2 /\ lastIo' = "fail"
                     /\ ctl' = [ctl EXCEPT !.port = "set", !.serial_connection = "open"]
                     /\ IF Uncaught("serial", "connect", "neterr")
                        THEN Escape ELSE Return("False")
                [] OTHER ->
                     /\ ioCount' = 2 /\ lastIo' = "ok"
                     /\ ctl' = [ctl EXCEPT !.port = "set", !.serial_connection = "open",
                                           !.connected = TRUE]
                     /\ Return("True")

\* SerialController.disconnect: serial_connection.close() may raise, and then
\* the method returns False with is_connected unchanged
SerialDisconnect ==
    /\ Enter("serial", "disconnect")
    /\ posts' = 0
    /\ UNCHANGED bg
    /\ IF ~ctl.connected
       THEN NoIo /\ Return("True") /\ UNCHANGED ctl
       ELSE IF ctl.serial_connection = "open"
            THEN \E out \in {"ok", "other"} :
                   /\ ioCount' = 1 /\ lastIo' = IoOf(out)
                   /\ CASE out = "ok" ->
                             /\ ctl' = [ctl EXCEPT !.serial_connection = "closed",
                                                   !.connected = FALSE]
                             /\ Return("True")
                        [] Uncaught("serial", "disconnect", out) ->
                             UNCHANGED ctl /\ Escape
                        [] OTHER ->
                             UNCHANGED ctl /\ Return("False")
            ELSE /\ ioCount' = 0 /\ lastIo' = "none"
                 /\ ctl' = [ctl EXCEPT !.connected = FALSE]
                 /\ Return("True")

\* SerialController.send_pattern (name "send_pattern") and stop (name "stop"),
\* which sends a zero-intensity pattern through send_pattern
SerialWrite(name) ==
    /\ Enter("serial", name)
    /\ UNCHANGED <<ctl, bg>>
    /\ IF ~ctl.connected \/ ctl.serial_connection = "none"
       THEN NoIo /\ Return("False")
       ELSE \E out \in (IF ctl.serial_connection = "open" THEN {"ok", "neterr"} ELSE {"other"}) :
              /\ ioCount' = 1 /\ posts' = 1 /\ lastIo' = IoOf(out)
              /\ CASE out = "ok" -> Return("True")
                   [] Uncaught("serial", "send_pattern", out) -> Escape
                   [] OTHER -> Return("False")

SerialSendPattern == SerialWrite("send_pattern")
SerialStop == SerialWrite("stop")

\* SerialController.get_status: no transport call
SerialGetStatus ==
    /\ Enter("serial", "get_status")
    /\ NoIo
    /\ UNCHANGED <<ctl, bg>>
    /\ Return("Status")

SerialNext ==
    \/ SerialConnect
    \/ SerialDisconnect
    \/ SerialSendPattern
    \/ SerialStop
    \/ SerialGetStatus

(***************************************************************************)
(* The controller managers: BaseControllerManager as inherited by          *)
(* ArduinoControllerManager, WebSocketControllerManager and                *)
(* SerialControllerManager.  A device's operation is seen from the manager *)
(* as a call that resolves to the value the controller method returns.     *)
(***************************************************************************)

Devices == 1..MaxDevices
ManagerKinds == {"arduino", "websocket", "serial"}

Range(seq) == {seq[i] : i \in 1..Len(seq)}

\* BaseControllerManager.__init__ and its two counterparts: an empty
\* controllers dict; no batch operation has run.
NewManager(k) ==
    [kind |-> k,
     controllers |-> <<>>,                  \* keys of self.controllers in dict order
     op |-> "none",                         \* the batch method called last
     pc |-> "idle",                         \* "idle", "join" (await task) or "loop" (await controller.op())
     idx |-> 0,                             \* position in tasks / in the dict iteration
     tasks |-> <<>>,                        \* the local list tasks
     registered |-> {},                     \* device ids registered when the batch was called
     failing |-> {},                        \* devices whose operation fails during this batch
     launched |-> {},                       \* devices whose operation has been started
     outcome |-> [d \in Devices |-> "-"],   \* what each started operation resolved to
     results |-> [d \in Devices |-> "-"],   \* the local dict results
     raised |-> FALSE]                      \* the batch method raised

\* The batch methods each manager class defines or inherits
BatchOps(k) ==
    IF k = "arduino"
    THEN {"connect_all", "disconnect_all", "send_to_all", "get_all_status"}
    ELSE {"connect_all", "disconnect_all", "send_to_all", "get_all_status", "stop_all"}

\* Concurrent with every manager running its devices one after the other
ConcurrentNever(k) == FALSE

\* BaseControllerManager and ArduinoControllerManager wrap each controller call
\* in asyncio.create_task before awaiting any; the other two managers await
\* the controller call itself inside the loop.
Concurrent(k) == k = "arduino"

\* DeviceOutcome with a failing controller raising instead of returning
DeviceOutcomeRaises(op, d, failing) ==
    IF d \in failing THEN "raise"
    ELSE IF op = "get_all_status" THEN "Status" ELSE "True"

\* What the controller method called by batch method op returns for device d:
\* the methods catch their transport failures and return False or None.
DeviceOutcome(op, d, failing) ==
    IF d \in failing
    THEN IF op = "get_all_status" THEN "None" ELSE "False"
    ELSE IF op = "get_all_status" THEN "Status" ELSE "True"

\* The value stored under the device id: ArduinoControllerManager.get_all_status
\* replaces a missing status by a default dict.
Stored(k, op, out) ==
    IF k = "arduino" /\ op = "get_all_status" /\ out = "None" THEN "Default" ELSE out

\* register_controller: self.controllers[device_id] = controller; a key that
\* is already present keeps its place (SerialControllerManager returns early).
RegisterController(d) ==
    /\ mgr.kind \in ManagerKinds
    /\ mgr.pc = "idle"
    /\ mgr' = [mgr EXCEPT !.controllers =
                  IF d \in Range(@) THEN @ ELSE Append(@, d)]
    /\ UNCHANGED <<ctlVars, app, vp, rp>>

\* BaseControllerManager.remove_controller
RemoveController(d) ==
    /\ mgr.kind = "arduino"
    /\ mgr.pc = "idle"
    /\ d \in Range(mgr.controllers)
    /\ mgr' = [mgr EXCEPT !.controllers = SelectSeq(@, LAMBDA x : x # d)]
    /\ UNCHANGED <<ctlVars, app, vp, rp>>

\* A batch method is called and runs to its first await: the concurrent
\* managers create one task per controller and await the first; the others
\* call the first controller's method.  With no controller it returns {}.
BatchCall(op) ==
    /\ mgr.kind \in ManagerKinds
    /\ mgr.pc = "idle"
    /\ op \in BatchOps(mgr.kind)
    /\ \E f \in SUBSET Range(mgr.controllers) :
         LET m == [NewManager(mgr.kind) EXCEPT
                     !.controllers = mgr.controllers,
                     !.op = op,
                     !.registered = Range(mgr.controllers),
                     !.failing = f]
         IN mgr' =
              IF mgr.controllers = <<>> THEN m
              ELSE IF Concurrent(mgr.kind)
                   THEN [m EXCEPT !.pc = "join", !.idx = 1,
                                  !.tasks = mgr.controllers,
                                  !.launched = Range(mgr.controllers)]
                   ELSE [m EXCEPT !.pc = "loop", !.idx = 1,
                                  !.launched = {mgr.controllers[1]}]
    /\ UNCHANGED <<ctlVars, app, vp, rp>>

\* One of the tasks a concurrent manager created runs its controller method
\* to the end.
TaskResolve(d) ==
    /\ mgr.pc = "join"
    /\ d \in mgr.launched
    /\ mgr.outcome[d] = "-"
    /\ mgr' = [mgr EXCEPT !.outcome[d] = DeviceOutcome(mgr.op, d, mgr.failing)]
    /\ UNCHANGED <<ctlVars, app, vp, rp>>

\* results[device_id] = await task, for the next task of the list; after the
\* last one the method returns results.
JoinNext ==
    /\ mgr.pc = "join"
    /\ LET d == mgr.tasks[mgr.idx]
           out == mgr.outcome[d]
       IN /\ out # "-"
          /\ mgr' =
               IF out = "raise"
               THEN [mgr EXCEPT !.pc = "idle", !.raised = TRUE]
               ELSE [mgr EXCEPT !.results[d] = Stored(mgr.kind, mgr.op, out),
                                !.idx = @ + 1,
                                !.pc = IF mgr.idx = Len(mgr.tasks) THEN "idle" ELSE "join"]
    /\ UNCHANGED <<ctlVars, app, vp, rp>>

\* results[device_id] = await controller.op(): the controller method of the
\* device the loop is at returns; the loop calls the next controller's
\* method, or the batch method returns results.  The loop iterates
\* self.controllers.items() itself: when the dict has changed size since the
\* loop began, the iterator's next step raises RuntimeError.
LoopResolve ==
    /\ mgr.pc = "loop"
    /\ LET d == mgr.controllers[mgr.idx]
           out == DeviceOutcome(mgr.op, d, mgr.failing)
       IN mgr' =
            IF out = "raise"
            THEN [mgr EXCEPT !.outcome[d] = out, !.pc = "idle", !.raised = TRUE]
            ELSE IF Len(mgr.controllers) # Cardinality(mgr.registered)
            THEN [mgr EXCEPT !.outcome[d] = out,
                             !.results[d] = Stored(mgr.kind, mgr.op, out),
                             !.pc = "idle", !.raised = TRUE]
            ELSE IF mgr.idx = Len(mgr.controllers)
                 THEN [mgr EXCEPT !.outcome[d] = out,
                                  !.results[d] = Stored(mgr.kind, mgr.op, out),
                                  !.idx = @ + 1,
                                  !.pc = "idle"]
                 ELSE [mgr EXCEPT !.outcome[d] = out,
                                  !.results[d] = Stored(mgr.kind, mgr.op, out),
                                  !.idx = @ + 1,
                                  !.launched = @ \cup {mgr.controllers[mgr.idx + 1]}]
    /\ UNCHANGED <<ctlVars, app, vp, rp>>

connect_all == BatchCall("connect_all")
disconnect_all == BatchCall("disconnect_all")
send_to_all == BatchCall("send_to_all")
get_all_status == BatchCall("get_all_status")
stop_all == BatchCall("stop_all")

NextMgr ==
    \/ \E d \in Devices : RegisterController(d)
    \/ \E d \in Devices : RemoveController(d)
    \/ connect_all
    \/ disconnect_all
    \/ send_to_all
    \/ get_all_status
    \/ stop_all
    \/ \E d \in Devices : TaskResolve(d)
    \/ JoinNext
    \/ LoopResolve

\* register_controller called by another coroutine while a batch method
\* waits at one of its awaits
RegisterDuringBatch(d) ==
    /\ mgr.kind \in ManagerKinds
    /\ mgr.pc \in {"join", "loop"}
    /\ d \notin Range(mgr.controllers)
    /\ mgr' = [mgr EXCEPT !.controllers = Append(@, d)]
    /\ UNCHANGED <<ctlVars, app, vp, rp>>

\* BaseControllerManager.remove_controller called by another coroutine while
\* a batch method waits at one of its awaits
RemoveDuringBatch(d) ==
    /\ mgr.kind = "arduino"
    /\ mgr.pc \in {"join", "loop"}
    /\ d \in Range(mgr.controllers)
    /\ mgr' = [mgr EXCEPT !.controllers = SelectSeq(@, LAMBDA x : x # d)]
    /\ UNCHANGED <<ctlVars, app, vp, rp>>

\* A manager driven by two coroutines: one runs the batch methods, the other
\* registers and removes controllers at any time
NextMgrInterleaved ==
    \/ NextMgr
    \/ \E d \in Devices : RegisterDuringBatch(d)
    \/ \E d \in Devices : RemoveDuringBatch(d)

(***************************************************************************)
(* HapticFeedbackIntegration (the instance haptic_feedback), the           *)
(* process-wide websocket_manager it drives, and the HTTP API's device     *)
(* list.  One caller: an entry point runs to its end before the next one   *)
(* is called; what the devices, the manager and the emotion pipeline       *)
(* answer is the environment's choice.                                     *)
(***************************************************************************)

ApiDevices == 1..MaxApiDevices

\* In a list of device configs: a config without device_id or host
InvalidConfig == 0

\* In a list of device configs: a config WebSocketControllerConfig rejects
\* (a host or port of the wrong type), so that register_controller raises
BadConfig == -1

\* The lists of device configs initialize is called with: no config twice
ConfigLists ==
    {c \in UNION {[1..n -> ApiDevices \cup {InvalidConfig, BadConfig}] :
                     n \in 0..MaxApiDevices} :
        \A i, j \in DOMAIN c : c[i] = c[j] => i = j}

NoResults == [d \in ApiDevices |-> "-"]

\* HapticFeedbackIntegration.__init__, the module-level websocket_manager and
\* registered_devices, before any call
NewApp ==
    [registered_devices |-> <<>>,   \* app.py: device ids of registered_devices, in list order
     controllers |-> <<>>,          \* keys of websocket_manager.controllers, in dict order
     linked |-> {},                 \* device ids whose controller in the manager is connected
     connected_devices |-> {},      \* haptic_feedback.connected_devices
     is_initialized |-> FALSE,      \* haptic_feedback.is_initialized
     call |-> "none",               \* the entry point called last
     arg |-> 0,                     \* the device id of a register/unregister request
     emotion |-> FALSE,             \* the ctx given to process_pipeline_result held an emotion
     ret |-> "-",                   \* what the entry point returned
     results |-> NoResults,         \* the device_id -> result mapping it returned
     status |-> 0,                  \* the HTTP status of a register/unregister request
     mgrCalls |-> 0,                \* manager methods the call awaited
     forwards |-> 0,                \* calls of websocket_manager.process_pipeline_context
     pipeline |-> "-"]              \* what run_pipeline did: "-" (not run), "ok", "error", "raise"

\* An entry point is called: nothing of the previous call's outcome is kept
BeginCall(a, name) ==
    [a EXCEPT !.call = name, !.arg = 0, !.emotion = FALSE, !.ret = "-",
              !.results = NoResults, !.status = 0, !.mgrCalls = 0,
              !.forwards = 0, !.pipeline = "-"]

\* initialize, the loop over device_configs from config i on: an invalid
\* config is skipped; register_controller puts a new, unconnected controller
\* under the device id; an exception ends the loop.
RECURSIVE RegisterAll(_, _, _)
RegisterAll(a, cfgs, i) ==
    IF i > Len(cfgs) THEN [a |-> a, raised |-> FALSE]
    ELSE IF cfgs[i] = InvalidConfig THEN RegisterAll(a, cfgs, i + 1)
    ELSE IF cfgs[i] = BadConfig THEN [a |-> a, raised |-> TRUE]
    ELSE LET d == cfgs[i]
         IN RegisterAll(
                [a EXCEPT !.controllers = IF d \in Range(@) THEN @ ELSE Append(@, d),
                          !.linked = @ \ {d},
                          !.connected_devices = @ \cup {d}],
                cfgs, i + 1)

\* WebSocketControllerManager.connect_all: every controller of the map that
\* is not connected tries to connect; those in ok succeed.
ConnectAll(a, ok) ==
    [a EXCEPT !.linked = @ \cup (ok \cap Range(a.controllers)),
              !.mgrCalls = @ + 1]

\* initialize, the loop over connection_results:
\* connected_devices.remove(device_id) for every device that did not connect,
\* in the order of the mapping; remove raises KeyError for an id the set does
\* not hold.
DropFailed(a) ==
    LET failed == SelectSeq(a.controllers, LAMBDA d : d \notin a.linked)
        unknown == {i \in 1..Len(failed) : failed[i] \notin a.connected_devices}
        stop == IF unknown = {} THEN Len(failed) + 1
                ELSE CHOOSE i \in unknown : \A j \in unknown : i <= j
    IN [a |-> [a EXCEPT !.connected_devices = @ \ {failed[i] : i \in 1..(stop - 1)}],
        raised |-> unknown # {}]

\* HapticFeedbackIntegration.initialize(device_configs); the devices in ok
\* accept the connection
Initialize(a0, cfgs, ok) ==
    LET a == BeginCall(a0, "initialize")
        r == RegisterAll(a, cfgs, 1)
    IN IF a0.is_initialized THEN [a EXCEPT !.ret = "True"]
       ELSE IF r.raised THEN [r.a EXCEPT !.ret = "False"]
       ELSE IF r.a.connected_devices = {} THEN [r.a EXCEPT !.ret = "False"]
       ELSE LET f == DropFailed(ConnectAll(r.a, ok))
            IN IF f.raised THEN [f.a EXCEPT !.ret = "False"]
               ELSE [f.a EXCEPT !.is_initialized = TRUE,
                                !.ret = IF f.a.connected_devices # {}
                                        THEN "True" ELSE "False"]

\* HapticFeedbackIntegration.shutdown; boom names the manager call that raises
Shutdown(a0, boom) ==
    LET a == BeginCall(a0, "shutdown")
    IN IF ~a0.is_initialized THEN [a EXCEPT !.ret = "True"]
       ELSE IF boom = "stop_all" THEN [a EXCEPT !.mgrCalls = 1, !.ret = "False"]
       ELSE IF boom = "disconnect_all" THEN [a EXCEPT !.mgrCalls = 2, !.ret = "False"]
       ELSE [a EXCEPT !.mgrCalls = 2, !.linked = {}, !.connected_devices = {},
                      !.is_initialized = FALSE, !.ret = "True"]

\* The mapping a batch method of websocket_manager returns: one entry per
\* controller of the map; a controller that is not connected, or whose
\* device is in failing, answers bad, the others good.
ManagerResults(a, failing, good, bad) ==
    [d \in ApiDevices |->
        IF d \notin Range(a.controllers) THEN "-"
        ELSE IF d \in a.linked /\ d \notin failing THEN good ELSE bad]

\* HapticFeedbackIntegration.process_pipeline_result(ctx); boom: the manager's
\* process_pipeline_context raises
ProcessPipelineResult(a0, emotion, failing, boom) ==
    LET a == [BeginCall(a0, "process_pipeline_result") EXCEPT !.emotion = emotion]
    IN IF ~a0.is_initialized \/ a0.connected_devices = {} \/ ~emotion
       THEN [a EXCEPT !.ret = "{}"]
       ELSE IF boom THEN [a EXCEPT !.mgrCalls = 1, !.forwards = 1, !.ret = "{}"]
       ELSE [a EXCEPT !.mgrCalls = 1, !.forwards = 1, !.ret = "results",
                      !.results = ManagerResults(a, failing, "True", "False")]

\* run_pipeline_and_send sending to the devices before looking at the error
RunPipelineAndSendIgnoresError(a0, pipe, failing, boom) ==
    LET a == BeginCall(a0, "run_pipeline_and_send")
        sent == ProcessPipelineResult(a0, TRUE, failing, boom)
    IN IF ~a0.is_initialized THEN [a EXCEPT !.ret = "({}, {})"]
       ELSE IF pipe = "raise" THEN [a EXCEPT !.pipeline = pipe, !.ret = "({}, {})"]
       ELSE [sent EXCEPT !.call = "run_pipeline_and_send", !.pipeline = pipe,
                         !.results = IF pipe = "ok" THEN @ ELSE NoResults,
                         !.ret = IF pipe = "ok" THEN "(formatted, results)" ELSE "({}, {})"]

\* HapticFeedbackIntegration.run_pipeline_and_send(user_input); pipe is what
\* run_pipeline does: returns (ctx, None), returns (ctx, error), or raises
RunPipelineAndSend(a0, pipe, failing, boom) ==
    LET a == BeginCall(a0, "run_pipeline_and_send")
        sent == ProcessPipelineResult(a0, TRUE, failing, boom)
    IN IF ~a0.is_initialized THEN [a EXCEPT !.ret = "({}, {})"]
       ELSE IF pipe # "ok" THEN [a EXCEPT !.pipeline = pipe, !.ret = "({}, {})"]
       ELSE [sent EXCEPT !.call = "run_pipeline_and_send", !.pipeline = pipe,
                         !.ret = "(formatted, results)"]

\* stop_all_devices / get_all_device_status with the is_initialized test left out
BatchEntryUnguarded(a0, name, failing, boom, good, bad) ==
    LET a == BeginCall(a0, name)
    IN IF boom THEN [a EXCEPT !.mgrCalls = 1, !.ret = "{}"]
       ELSE [a EXCEPT !.mgrCalls = 1, !.ret = "results",
                      !.results = ManagerResults(a, failing, good, bad)]

\* HapticFeedbackIntegration.stop_all_devices and get_all_device_status: the
\* manager's stop_all / get_all_status behind the is_initialized test
BatchEntry(a0, name, failing, boom, good, bad) ==
    LET a == BeginCall(a0, name)
    IN IF ~a0.is_initialized THEN [a EXCEPT !.ret = "{}"]
       ELSE IF boom THEN [a EXCEPT !.mgrCalls = 1, !.ret = "{}"]
       ELSE [a EXCEPT !.mgrCalls = 1, !.ret = "results",
                      !.results = ManagerResults(a, failing, good, bad)]

\* register_device appending without looking for the id
RegisterDeviceNoLookup(a0, d) ==
    [BeginCall(a0, "register_device") EXCEPT
        !.arg = d, !.registered_devices = Append(@, d), !.status = 200]

\* app.py register_device: POST /api/v1/devices
RegisterDevice(a0, d) ==
    LET a == [BeginCall(a0, "register_device") EXCEPT !.arg = d]
    IN IF d \in Range(a0.registered_devices)
       THEN [a EXCEPT !.status = 400]
       ELSE [a EXCEPT !.registered_devices = Append(@, d), !.status = 200]

\* app.py unregister_device: DELETE /api/v1/devices/{device_id}.  On an
\* initialized system the handler reads websocket_manager.disconnect, which
\* WebSocketControllerManager does not have: AttributeError, answered 500
\* after the entry was popped from the list.
UnregisterDevice(a0, d) ==
    LET a == [BeginCall(a0, "unregister_device") EXCEPT !.arg = d]
    IN IF d \in Range(a0.registered_devices)
       THEN [a EXCEPT !.registered_devices = SelectSeq(@, LAMBDA x : x # d),
                      !.status = IF a0.is_initialized THEN 500 ELSE 200]
       ELSE [a EXCEPT !.status = 404]

AppStep(a) == app' = a /\ UNCHANGED <<ctlVars, mgr, vp, rp>>

\* The device ids a list of configs names
ConfigIds(cfgs) == Range(cfgs) \cap ApiDevices

initialize ==
    \E cfgs \in ConfigLists :
        \E ok \in SUBSET (Range(app.controllers) \cup ConfigIds(cfgs)) :
            AppStep(Initialize(app, cfgs, ok))

shutdown ==
    \E boom \in {"no", "stop_all", "disconnect_all"} : AppStep(Shutdown(app, boom))

process_pipeline_result ==
    \E emotion \in BOOLEAN, failing \in SUBSET app.linked, boom \in BOOLEAN :
        AppStep(ProcessPipelineResult(app, emotion, failing, boom))

run_pipeline_and_send ==
    \E pipe \in {"ok", "error", "raise"}, failing \in SUBSET app.linked, boom \in BOOLEAN :
        AppStep(RunPipelineAndSend(app, pipe, failing, boom))

stop_all_devices ==
    \E failing \in SUBSET app.linked, boom \in BOOLEAN :
        AppStep(BatchEntry(app, "stop_all_devices", failing, boom, "True", "False"))

get_all_device_status ==
    \E failing \in SUBSET app.linked, boom \in BOOLEAN :
        AppStep(BatchEntry(app, "get_all_device_status", failing, boom, "Status", "None"))

\* The entry points of haptic_feedback
NextApp ==
    \/ initialize
    \/ shutdown
    \/ process_pipeline_result
    \/ run_pipeline_and_send
    \/ stop_all_devices
    \/ get_all_device_status

register_device == \E d \in ApiDevices : AppStep(RegisterDevice(app, d))

unregister_device == \E d \in ApiDevices : AppStep(UnregisterDevice(app, d))

\* app.py initialize_devices: POST /api/v1/devices/initialize
initialize_devices ==
    IF app.registered_devices = <<>>
    THEN AppStep([BeginCall(app, "initialize_devices") EXCEPT !.status = 400])
    ELSE \E ok \in SUBSET (Range(app.controllers) \cup Range(app.registered_devices)) :
            AppStep([Initialize(app, app.registered_devices, ok) EXCEPT
                        !.call = "initialize_devices", !.status = 200])

\* app.py shutdown_devices: POST /api/v1/devices/shutdown
shutdown_devices ==
    \E boom \in {"no", "stop_all", "disconnect_all"} :
        AppStep([Shutdown(app, boom) EXCEPT !.call = "shutdown_devices", !.status = 200])

\* app.py get_device_status: GET /api/v1/devices/status; the answer lists one
\* device per entry of get_all_device_status
get_device_status ==
    IF ~app.is_initialized
    THEN AppStep([BeginCall(app, "get_device_status") EXCEPT !.status = 400])
    ELSE \E failing \in SUBSET app.linked, boom \in BOOLEAN :
            AppStep([BatchEntry(app, "get_all_device_status", failing, boom, "Status", "None")
                        EXCEPT !.call = "get_device_status", !.status = 200])

\* The endpoints of the HTTP API that manage the devices
NextApi ==
    \/ register_device
    \/ unregister_device
    \/ initialize_devices
    \/ shutdown_devices
    \/ get_device_status

(***************************************************************************)
(* Vibration patterns (vibration_patterns.py): the two dataclasses with    *)
(* their validation, the dictionary form, the four category patterns and   *)
(* the generator.  An intensity is written in thousandths (0.5 is 500); a  *)
(* constructor that raises yields ValueError.                              *)
(***************************************************************************)

\* VibrationStep.__post_init__: the intensity 1.0
FullIntensity == 1000

\* VibrationStep.__post_init__: the longest duration_ms
MaxDurationMs == 10000

\* VibrationPattern.__post_init__: the longest interval_ms
MaxIntervalMs == 10000

\* VibrationPattern.__post_init__: the largest repeat_count
MaxRepeatCount == 100

\* get_dominant_emotions: the default threshold
Threshold == 2

ValueError == [error |-> "ValueError"]

\* VibrationStep accepting any intensity that is not negative
VibrationStepNoCeiling(intensity, duration_ms) ==
    IF intensity < 0 \/ duration_ms < 0 \/ duration_ms > MaxDurationMs
    THEN ValueError
    ELSE [intensity |-> intensity, duration_ms |-> duration_ms]

\* VibrationStep(intensity, duration_ms): the dataclass and __post_init__
VibrationStep(intensity, duration_ms) ==
    IF ~(0 <= intensity /\ intensity <= FullIntensity) THEN ValueError
    ELSE IF duration_ms < 0 THEN ValueError
    ELSE IF duration_ms > MaxDurationMs THEN ValueError
    ELSE [intensity |-> intensity, duration_ms |-> duration_ms]

\* VibrationPattern(steps, interval_ms, repeat_count) over steps that were
\* constructed: the dataclass and __post_init__
VibrationPattern(steps, interval_ms, repeat_count) ==
    IF Len(steps) = 0 THEN ValueError
    ELSE IF interval_ms < 0 THEN ValueError
    ELSE IF interval_ms > MaxIntervalMs THEN ValueError
    ELSE IF repeat_count < 1 THEN ValueError
    ELSE IF repeat_count > MaxRepeatCount THEN ValueError
    ELSE [steps |-> steps, interval_ms |-> interval_ms, repeat_count |-> repeat_count]

\* A pattern built from a list of VibrationStep(...) expressions: a step that
\* raises ends the construction
Build(steps, interval_ms, repeat_count) ==
    IF \E i \in 1..Len(steps) : steps[i] = ValueError THEN ValueError
    ELSE VibrationPattern(steps, interval_ms, repeat_count)

\* VibrationPattern.to_dict
to_dict(p) ==
    [steps |-> [i \in 1..Len(p.steps) |->
                   [intensity |-> p.steps[i].intensity,
                    duration |-> p.steps[i].duration_ms]],
     interval |-> p.interval_ms,
     repetitions |-> p.repeat_count]

\* dict.get(key, default)
Get(d, key, default) == IF key \in DOMAIN d THEN d[key] ELSE default

\* from_dict reading the current field names only
from_dict_current_names(data) ==
    Build([i \in 1..Len(data.steps) |->
              VibrationStep(data.steps[i].intensity, Get(data.steps[i], "duration_ms", 0))],
          Get(data, "interval_ms", 0),
          Get(data, "repeat_count", 1))

\* VibrationPattern.from_dict
from_dict(data) ==
    Build([i \in 1..Len(data.steps) |->
              VibrationStep(data.steps[i].intensity,
                            Get(data.steps[i], "duration_ms",
                                Get(data.steps[i], "duration", 0)))],
          Get(data, "interval_ms", Get(data, "interval", 0)),
          Get(data, "repeat_count", Get(data, "repetitions", 1)))

Min(a, b) == IF a <= b THEN a ELSE b

Max(a, b) == IF a >= b THEN a ELSE b

\* intensity + 0.1 in binary floating point: 0.7 + 0.1 is 0.7999999999999999,
\* a value below 0.8 that is written 799; the other sums the patterns use
\* (0.5, 0.6, 0.8, 0.9, 1.0 plus 0.1) are the decimal ones
PlusTenth(intensity) == IF intensity = 700 THEN 799 ELSE intensity + 100

\* EmotionVibrationPatterns.joy_pattern
joy_pattern(intensity_level) ==
    LET intensity == IF intensity_level >= 4 THEN 800
                     ELSE IF intensity_level <= 1 THEN 500 ELSE 600
        repetitions == IF intensity_level >= 4 THEN 5
                       ELSE IF intensity_level <= 1 THEN 2 ELSE 3
    IN Build(<<VibrationStep(intensity, 200),
               VibrationStep(Min(PlusTenth(intensity), FullIntensity), 200),
               VibrationStep(intensity, 200)>>,
             100, repetitions)

\* EmotionVibrationPatterns.anger_pattern
anger_pattern(intensity_level) ==
    LET intensity == IF intensity_level >= 4 THEN 1000
                     ELSE IF intensity_level <= 1 THEN 700 ELSE 900
        interval == IF intensity_level >= 4 THEN 30
                    ELSE IF intensity_level <= 1 THEN 80 ELSE 50
    IN Build(<<VibrationStep(intensity, 100),
               VibrationStep(Min(PlusTenth(intensity), FullIntensity), Max(100 - 20, 50)),
               VibrationStep(intensity, 100),
               VibrationStep(Min(PlusTenth(intensity), FullIntensity), Max(100 - 20, 50))>>,
             interval, 4)

\* EmotionVibrationPatterns.sorrow_pattern: the interval computed per tier is
\* not used, the pattern is built with base_interval
sorrow_pattern(intensity_level) ==
    LET intensity == IF intensity_level >= 4 THEN 600 ELSE 500
        duration == IF intensity_level >= 4 THEN 700
                    ELSE IF intensity_level <= 1 THEN 300 ELSE 500
    IN Build(<<VibrationStep(intensity, duration),
               VibrationStep(Max(intensity - 100, 500), duration + 100)>>,
             300, 2)

\* EmotionVibrationPatterns.pleasure_pattern
pleasure_pattern(intensity_level) ==
    LET max_intensity == IF intensity_level >= 4 THEN 700
                         ELSE IF intensity_level <= 1 THEN 500 ELSE 600
    IN Build(<<VibrationStep(500, 250),
               VibrationStep(600, 300),
               VibrationStep(max_intensity, 350),
               VibrationStep(600, 300),
               VibrationStep(500, 250)>>,
             150, 3)

\* The largest value an axis of the emotions drawn takes
MaxLevel == 5

\* The longest list of steps a pattern is constructed from
MaxSteps == 2

Levels == 0..MaxLevel

\* Emotion(joy, fun, anger, sad)
Emotions == [joy : Levels, fun : Levels, anger : Levels, sad : Levels]

\* The insertion of a sort that puts a pair before the pairs of the same value
InsertDescendingUnstable(sorted, pair) ==
    LET k == Cardinality({i \in 1..Len(sorted) : sorted[i][2] > pair[2]})
    IN SubSeq(sorted, 1, k) \o <<pair>> \o SubSeq(sorted, k + 1, Len(sorted))

\* sorted(..., reverse=True) taking one more pair: the sort is stable, a pair
\* goes behind the pairs of the same value that came before it
InsertDescending(sorted, pair) ==
    LET k == Cardinality({i \in 1..Len(sorted) : sorted[i][2] >= pair[2]})
    IN SubSeq(sorted, 1, k) \o <<pair>> \o SubSeq(sorted, k + 1, Len(sorted))

\* sorted(dominant, key=lambda x: x[1], reverse=True)
RECURSIVE SortedDescending(_)
SortedDescending(pairs) ==
    IF pairs = <<>> THEN <<>>
    ELSE InsertDescending(SortedDescending(SubSeq(pairs, 1, Len(pairs) - 1)),
                          pairs[Len(pairs)])

\* get_dominant_emotions with the values compared to threshold + 1
get_dominant_emotions_above(emotion, threshold) ==
    SortedDescending(SelectSeq(
        <<<<"joy", emotion.joy>>, <<"fun", emotion.fun>>,
          <<"anger", emotion.anger>>, <<"sad", emotion.sad>>>>,
        LAMBDA pair : pair[2] > threshold))

\* VibrationPatternGenerator.get_dominant_emotions
get_dominant_emotions(emotion, threshold) ==
    SortedDescending(SelectSeq(
        <<<<"joy", emotion.joy>>, <<"fun", emotion.fun>>,
          <<"anger", emotion.anger>>, <<"sad", emotion.sad>>>>,
        LAMBDA pair : pair[2] >= threshold))

\* map_emotion_to_category with fun and sad exchanged
map_emotion_to_category_swapped(emotion_name) ==
    CASE emotion_name = "joy" -> "joy"
      [] emotion_name = "fun" -> "sorrow"
      [] emotion_name = "anger" -> "anger"
      [] emotion_name = "sad" -> "pleasure"
      [] OTHER -> "joy"

\* VibrationPatternGenerator.map_emotion_to_category
map_emotion_to_category(emotion_name) ==
    CASE emotion_name = "joy" -> "joy"
      [] emotion_name = "fun" -> "pleasure"
      [] emotion_name = "anger" -> "anger"
      [] emotion_name = "sad" -> "sorrow"
      [] OTHER -> "joy"

\* emotion_category = None (an empty string takes the same branch)
NoCategory == ""

\* The category overrides generate_pattern is called with; the labels of the
\* four categories in Japanese are written ki, do, ai, raku
Categories ==
    {NoCategory, "joy", "anger", "sorrow", "pleasure", "JOY",
     "ki", "do", "ai", "raku", "other"}

\* str.lower on the categories drawn
Lower(category) == IF category = "JOY" THEN "joy" ELSE category

\* generate_pattern without category_mapping
category_mapping_none(category) == category

\* generate_pattern: category_mapping
category_mapping(category) ==
    CASE category = "ki" -> "joy"
      [] category = "do" -> "anger"
      [] category = "ai" -> "sorrow"
      [] category = "raku" -> "pleasure"
      [] OTHER -> category

\* The if/elif chains ending in the pleasure pattern
PatternOfElsePleasure(category, intensity_level) ==
    CASE category = "joy" -> joy_pattern(intensity_level)
      [] category = "anger" -> anger_pattern(intensity_level)
      [] category = "sorrow" -> sorrow_pattern(intensity_level)
      [] OTHER -> pleasure_pattern(intensity_level)

\* generate_pattern: the pattern of a category at an intensity level
PatternOf(category, intensity_level) ==
    CASE category = "joy" -> joy_pattern(intensity_level)
      [] category = "anger" -> anger_pattern(intensity_level)
      [] category = "sorrow" -> sorrow_pattern(intensity_level)
      [] category = "pleasure" -> pleasure_pattern(intensity_level)
      [] OTHER -> joy_pattern(intensity_level)

\* VibrationPatternGenerator.generate_pattern
generate_pattern(emotion, emotion_category) ==
    IF emotion_category # NoCategory
    THEN LET category == category_mapping(Lower(emotion_category))
             intensity_level ==
                 CASE category = "joy" -> emotion.joy
                   [] category = "anger" -> emotion.anger
                   [] category = "sorrow" -> emotion.sad
                   [] category = "pleasure" -> emotion.fun
                   [] OTHER -> (emotion.joy + emotion.fun + emotion.anger + emotion.sad) \div 4
         IN PatternOf(category, intensity_level)
    ELSE LET dominant_emotions == get_dominant_emotions(emotion, Threshold)
         IN IF dominant_emotions = <<>>
            THEN Build(<<VibrationStep(500, 300)>>, 200, 1)
            ELSE PatternOf(map_emotion_to_category(dominant_emotions[1][1]),
                           dominant_emotions[1][2])

\* The arguments VibrationStep is constructed with
StepInputs ==
    [kind : {"step"},
     intensity : {-1, 0, 500, FullIntensity, FullIntensity + 1},
     duration_ms : {-1, 0, 300, MaxDurationMs, MaxDurationMs + 1}]

\* The lists of constructed steps a pattern is made of
StepLists ==
    UNION {[1..n -> {VibrationStep(i, d) : i \in {0, 500, FullIntensity},
                                           d \in {0, MaxDurationMs}}] :
              n \in 0..MaxSteps}

\* The arguments VibrationPattern is constructed with
PatternInputs ==
    [kind : {"pattern"},
     steps : StepLists,
     interval_ms : {-1, 0, 200, MaxIntervalMs, MaxIntervalMs + 1},
     repeat_count : {0, 1, 3, MaxRepeatCount, MaxRepeatCount + 1}]

\* The constructed patterns to_dict is called on
ValidPatterns ==
    {VibrationPattern(p.steps, p.interval_ms, p.repeat_count) : p \in PatternInputs}
        \ {ValueError}

\* The dictionaries from_dict is called with: a pattern's values under the
\* current or under the legacy field names
DictInputs ==
    [kind : {"dict"}, names : {"current", "legacy"}, p : ValidPatterns]

\* The dictionary of a pattern's values under the given field names
DictOf(p, names) ==
    IF names = "current"
    THEN [steps |-> [i \in 1..Len(p.steps) |->
                        [intensity |-> p.steps[i].intensity,
                         duration_ms |-> p.steps[i].duration_ms]],
          interval_ms |-> p.interval_ms,
          repeat_count |-> p.repeat_count]
    ELSE [steps |-> [i \in 1..Len(p.steps) |->
                        [intensity |-> p.steps[i].intensity,
                         duration |-> p.steps[i].duration_ms]],
          interval |-> p.interval_ms,
          repetitions |-> p.repeat_count]

\* The patterns taken through to_dict and from_dict
RoundTripInputs == [kind : {"round_trip"}, p : ValidPatterns]

\* The arguments generate_pattern is called with
GenerateInputs == [kind : {"generate"}, emotion : Emotions, category : Categories]

\* The arguments joy_pattern, anger_pattern, sorrow_pattern and
\* pleasure_pattern are called with
CategoryPatternInputs ==
    [kind : {"category_pattern"},
     category : {"joy", "anger", "sorrow", "pleasure"},
     intensity_level : Levels]

\* No call made yet
NoCall(input) == [op |-> "none", in |-> input, out |-> ValueError]

PatStep(kind, name, value) ==
    /\ vp.op = "none"
    /\ vp.in.kind = kind
    /\ vp' = [vp EXCEPT !.op = name, !.out = value]
    /\ UNCHANGED <<ctlVars, mgr, app, rp>>

CallVibrationStep ==
    PatStep("step", "VibrationStep", VibrationStep(vp.in.intensity, vp.in.duration_ms))

CallVibrationPattern ==
    PatStep("pattern", "VibrationPattern",
            VibrationPattern(vp.in.steps, vp.in.interval_ms, vp.in.repeat_count))

CallFromDict ==
    PatStep("dict", "from_dict", from_dict(DictOf(vp.in.p, vp.in.names)))

CallRoundTrip ==
    PatStep("round_trip", "round_trip", from_dict(to_dict(vp.in.p)))

CallGeneratePattern ==
    PatStep("generate", "generate_pattern", generate_pattern(vp.in.emotion, vp.in.category))

CallCategoryPattern ==
    PatStep("category_pattern", vp.in.category,
            CASE vp.in.category = "joy" -> joy_pattern(vp.in.intensity_level)
              [] vp.in.category = "anger" -> anger_pattern(vp.in.intensity_level)
              [] vp.in.category = "sorrow" -> sorrow_pattern(vp.in.intensity_level)
              [] vp.in.category = "pleasure" -> pleasure_pattern(vp.in.intensity_level))

NextPat ==
    \/ CallVibrationStep
    \/ CallVibrationPattern
    \/ CallFromDict
    \/ CallRoundTrip
    \/ CallGeneratePattern
    \/ CallCategoryPattern

(***************************************************************************)
(* run_pipeline (pipeline/pipeline.py) and what its callers do with the    *)
(* (ctx, error) it returns.  user_input is a UserInput, as the signature   *)
(* and the callers have it; what the learner and the two agents answer is  *)
(* the environment's choice; a failure is an exception of class Exception. *)
(***************************************************************************)

\* Before any call; at a call, ctx = PipelineContext(user_input=user_input)
\* and error = None
NewRun ==
    [pc |-> "idle",
     caller |-> "none",             \* main.interact, analyze_emotion or run_pipeline_and_send
     learner |-> FALSE,             \* an emotion_learner was given
     emotion |-> "None",            \* ctx.emotion: None, or who set it
     is_learned_response |-> FALSE, \* ctx.is_learned_response
     modified_message |-> "",       \* ctx.modified_message
     emotion_category |-> "",       \* ctx.emotion_category
     error |-> "None",              \* the error run_pipeline returns
     raised |-> FALSE,              \* run_pipeline raised instead of returning
     started |-> <<>>,              \* the steps begun, in order
     completed |-> {},              \* the steps that returned
     answer |-> "-"]                \* what the caller made of (ctx, error)

\* An exception leaves the try block and run_pipeline with it
ExceptReraises(r) == [r EXCEPT !.raised = TRUE, !.pc = "returned"]

\* except Exception as e: error = e; then return ctx, error
Except(r) == [r EXCEPT !.error = "Exception", !.pc = "returned"]

RunStep(r) == rp' = r /\ UNCHANGED <<ctlVars, mgr, app, vp>>

\* A caller awaits run_pipeline(user_input, emotion_learner)
run_pipeline ==
    /\ rp.pc \in {"idle", "answered"}
    /\ \E caller \in {"main", "analyze_emotion", "run_pipeline_and_send"},
          learner \in BOOLEAN :
         RunStep([NewRun EXCEPT !.pc = IF learner THEN "predict" ELSE "extract",
                                !.caller = caller, !.learner = learner])

\* learned_emotion = emotion_learner.predict_emotion(user_input): an emotion,
\* nothing, or an exception
predict_emotion ==
    /\ rp.pc = "predict"
    /\ \E out \in {"emotion", "nothing", "raise"} :
         LET r == [rp EXCEPT !.started = Append(@, "predict")]
         IN RunStep(
              IF out = "raise" THEN Except(r)
              ELSE IF out = "emotion"
              THEN [r EXCEPT !.completed = @ \cup {"predict"},
                             !.emotion = "learned",
                             !.is_learned_response = TRUE,
                             !.pc = "classify"]
              ELSE [r EXCEPT !.completed = @ \cup {"predict"}, !.pc = "extract"])

\* The extraction agent is built and awaited: result1 = await Runner.run(...)
extraction_start ==
    /\ rp.pc = "extract"
    /\ RunStep([rp EXCEPT !.started = Append(@, "extract"), !.pc = "extracting"])

\* Runner.run returns the OriginalOutput, or raises
extraction_end ==
    /\ rp.pc = "extracting"
    /\ \E out \in {"output", "raise"} :
         RunStep(
           IF out = "raise" THEN Except(rp)
           ELSE [rp EXCEPT !.completed = @ \cup {"extract"},
                           !.emotion = "extracted",
                           !.is_learned_response = FALSE,
                           !.pc = "classify"])

\* The classification agent is built with its handoffs and awaited on
\* json.dumps(ctx.emotion.model_dump()), which raises when ctx.emotion is None
classification_start ==
    /\ rp.pc = "classify"
    /\ RunStep(
         IF rp.emotion = "None" THEN Except(rp)
         ELSE [rp EXCEPT !.started = Append(@, "classify"), !.pc = "classifying"])

\* Runner.run returns the HandoffOutput of the agent the classifier handed
\* off to, or raises
classification_end ==
    /\ rp.pc = "classifying"
    /\ \E out \in {"joy", "anger", "sorrow", "pleasure", "raise"} :
         RunStep(
           IF out = "raise" THEN Except(rp)
           ELSE [rp EXCEPT !.completed = @ \cup {"classify"},
                           !.modified_message = "message",
                           !.emotion_category = out,
                           !.pc = "returned"])

\* The caller goes on with (ctx, error): main.interact prints the error or
\* the results, analyze_emotion answers 500 or 200, run_pipeline_and_send
\* returns ({}, {}) or forwards ctx to the devices
caller_continues ==
    /\ rp.pc = "returned"
    /\ RunStep([rp EXCEPT
          !.pc = "answered",
          !.answer =
             IF rp.raised THEN "raise"
             ELSE IF rp.caller = "main"
             THEN IF rp.error # "None" THEN "error printed" ELSE "results printed"
             ELSE IF rp.caller = "analyze_emotion"
             THEN IF rp.error # "None" THEN "500" ELSE "200"
             ELSE IF rp.error # "None" THEN "({}, {})" ELSE "(formatted, results)"])

NextRun ==
    \/ run_pipeline
    \/ predict_emotion
    \/ extraction_start
    \/ extraction_end
    \/ classification_start
    \/ classification_end
    \/ caller_continues

(***************************************************************************)
(* The specifications                                                      *)
(***************************************************************************)

\* No controller is driven: the state of the controller part under SpecMgr
NoCaller ==
    /\ variant = "none"
    /\ retry_count = 0
    /\ ctl = NewController("none")
    /\ bg = NoTasks
    /\ opName = "none"
    /\ pc = "done"
    /\ attempt = 0
    /\ result = "-"
    /\ raised = FALSE
    /\ ioCount = 0
    /\ posts = 0
    /\ lastIo = "none"
    /\ pre = ctl

Init ==
    /\ variant \in Variants
    /\ retry_count \in 0..MaxRetryCount
    /\ \E p \in {"none", "set"} :
         ctl = NewController(IF variant = "serial" THEN p ELSE "none")
    /\ bg = NoTasks
    /\ opName = "none"
    /\ pc = "done"
    /\ attempt = 0
    /\ result = "-"
    /\ raised = FALSE
    /\ ioCount = 0
    /\ posts = 0
    /\ lastIo = "none"
    /\ pre = ctl
    /\ mgr = NewManager("none")
    /\ app = NewApp
    /\ vp = [op |-> "none"]
    /\ rp = NewRun

Next == HttpNext \/ WsNext \/ SerialNext

\* One controller of any of the three classes, driven by one caller
Spec == Init /\ [][Next]_vars

InitMgr ==
    /\ NoCaller
    /\ \E k \in ManagerKinds : mgr = NewManager(k)
    /\ app = NewApp
    /\ vp = [op |-> "none"]
    /\ rp = NewRun

\* One manager of any of the three classes, driven by one caller
SpecMgr == InitMgr /\ [][NextMgr]_vars

\* One manager of any of the three classes, driven by two coroutines
SpecMgrInterleaved == InitMgr /\ [][NextMgrInterleaved]_vars

InitApp ==
    /\ NoCaller
    /\ mgr = NewManager("none")
    /\ app = NewApp
    /\ vp = [op |-> "none"]
    /\ rp = NewRun

\* The integration haptic_feedback, driven by one caller
SpecApp == InitApp /\ [][NextApp]_vars

\* The HTTP API's device endpoints over haptic_feedback, one request at a time
SpecApi == InitApp /\ [][NextApi]_vars

InitPat ==
    /\ NoCaller
    /\ mgr = NewManager("none")
    /\ app = NewApp
    /\ \E input \in StepInputs \cup PatternInputs \cup DictInputs
                      \cup RoundTripInputs \cup GenerateInputs
                      \cup CategoryPatternInputs :
           vp = NoCall(input)
    /\ rp = NewRun

\* One call of a function of vibration_patterns.py on arguments drawn at the start
SpecPat == InitPat /\ [][NextPat]_vars

\* run_pipeline called again and again by its callers, one call at a time
SpecRun == InitApp /\ [][NextRun]_vars

(***************************************************************************)
(* The controllers' properties                                             *)
(***************************************************************************)

\* The value a method returns when it failed
FailValue(name) == IF name = "get_status" THEN "None" ELSE "False"

\* C1: for each of the three controllers, send_pattern called on a controller
\* that is not connected returns False at once: no exception, no transport
\* call, no command on the transport, and every field of the controller as it
\* was before the call.
C1_SendPatternNotConnected ==
    (opName = "send_pattern" /\ ~pre.connected) =>
        /\ pc = "done"
        /\ result = "False"
        /\ ~raised
        /\ ioCount = 0
        /\ posts = 0
        /\ ctl = pre

C1_Witness ==
    /\ opName = "send_pattern"
    /\ ~pre.connected
    /\ pc = "done"
    /\ result = "False"

\* C2: one send_pattern call of a connected ArduinoController POSTs at most
\* retry_count times; it returns False only after exactly retry_count POSTs,
\* all of them failed; a 200 answer ends the call at once with True, every
\* POST before it having failed.
C2_HttpSendPatternRetries ==
    (variant = "http" /\ opName = "send_pattern" /\ pre.connected) =>
        /\ posts <= retry_count
        /\ (lastIo = "ok" => pc = "done" /\ result = "True")
        /\ (pc = "done" => result \in {"True", "False"})
        /\ (pc = "done" /\ result = "True" => lastIo = "ok" /\ posts = attempt + 1)
        /\ (pc = "done" /\ result = "False" => lastIo # "ok" /\ posts = retry_count)

C2_Witness ==
    /\ variant = "http"
    /\ opName = "send_pattern"
    /\ pre.connected
    /\ retry_count = 3
    /\ pc = "done"
    /\ result = "False"
    /\ posts = 3

\* C5: no controller method lets an exception through to its caller, and a
\* method whose latest transport call failed returns False (None for
\* get_status); this holds through send_pattern's disconnect-and-reconnect.
C5_NoExceptionEscapes ==
    /\ ~raised
    /\ (pc = "done" /\ lastIo = "fail" => result = FailValue(opName))
    /\ (pc = "done" /\ opName # "none" => result # "-")

C5_Witness ==
    /\ variant = "ws"
    /\ opName = "send_pattern"
    /\ pc = "done"
    /\ pre.connected
    /\ ~ctl.connected
    /\ lastIo = "fail"
    /\ result = "False"

\* C6: a connect() of the HTTP or WebSocket controller that returns False
\* leaves it disconnected with nothing held: connected False, session None, no
\* socket, no background task and no task handle.  A connect() on a connected
\* controller returns True without a transport call.
C6_FailedConnectReleases ==
    /\ (variant \in {"http", "ws"} /\ opName = "connect" /\ pc = "done"
            /\ result = "False") =>
          /\ ~ctl.connected
          /\ ctl.session = "none"
          /\ ctl.ws = "none"
          /\ ~ctl.heartbeat_task /\ ~ctl.status_monitor_task
          /\ bg.hb = "none" /\ bg.mon = "none"
    /\ (opName = "connect" /\ pre.connected) =>
          pc = "done" /\ result = "True" /\ ioCount = 0

C6_Witness ==
    /\ variant = "ws"
    /\ opName = "connect"
    /\ pc = "done"
    /\ result = "False"
    /\ ioCount = 2

\* C7 as stated: after any disconnect() that returns, the controller is
\* disconnected with socket and session None.
C7_AnyDisconnectDisconnects ==
    (opName = "disconnect" /\ pc = "done" /\ ~raised) =>
        ~ctl.connected /\ ctl.session = "none" /\ ctl.ws = "none"

\* C7 amended: disconnect() on a disconnected controller returns True and
\* changes nothing, whatever it still holds; a disconnect() that returns True
\* leaves connected False, and when the controller was connected also socket
\* and session None and the serial port closed, so that a further
\* disconnect() changes nothing; disconnect() returns False
\* only in SerialController, when closing the port raises, and then the
\* controller is left connected and unchanged.
C7_DisconnectIdempotent ==
    (opName = "disconnect" /\ pc = "done") =>
        /\ result \in {"True", "False"}
        /\ (~pre.connected => result = "True" /\ ctl = pre /\ ioCount = 0)
        /\ (result = "True" => ~ctl.connected)
        /\ (result = "True" /\ pre.connected =>
              /\ ctl.session = "none"
              /\ ctl.ws = "none"
              /\ ctl.serial_connection # "open")
        /\ (result = "False" => variant = "serial" /\ ctl.connected /\ ctl = pre)

C7_Witness ==
    /\ opName = "disconnect"
    /\ pc = "done"
    /\ pre.connected
    /\ pre.session = "open"
    /\ result = "True"
    /\ ~ctl.connected

\* C8: a WebSocketController's heartbeat and status-monitor loops exist only
\* while it is connected: whenever connected is False (so after every
\* disconnect() that has returned) neither task is alive and both handles are
\* None, so neither loop touches the socket; and there is never more than one
\* task of either loop.
C8_LoopsOnlyWhileConnected ==
    variant = "ws" =>
        /\ (~ctl.connected =>
              /\ bg.hb = "none" /\ bg.mon = "none"
              /\ ~ctl.heartbeat_task /\ ~ctl.status_monitor_task)
        /\ (bg.hb \in {"recv", "upgrade"} \/ bg.mon = "recv" => ctl.connected)
        /\ bg.hbLive = (IF bg.hb = "none" THEN 0 ELSE 1)
        /\ bg.monLive = (IF bg.mon = "none" THEN 0 ELSE 1)

C8_Witness ==
    /\ variant = "ws"
    /\ opName = "disconnect"
    /\ pc = "done"
    /\ pre.connected
    /\ pre.heartbeat_task /\ pre.status_monitor_task
    /\ ~ctl.heartbeat_task /\ ~ctl.status_monitor_task
    /\ bg.hb = "none" /\ bg.mon = "none"

\* C9 as stated: once the heartbeat has dealt with a missing or closed socket
\* the controller is connected with a heartbeat loop alive to repair it, or
\* disconnected with socket and session None; with no method call in flight
\* it is in one of the two.
C9_HeartbeatRepairConsistent ==
    (variant = "ws" /\ pc = "done") =>
        \/ ctl.connected /\ bg.hb # "none"
        \/ ~ctl.connected /\ ctl.ws = "none" /\ ctl.session = "none"

BatchOver == mgr.op # "none" /\ mgr.pc = "idle"

Filled(f) == {d \in Devices : f[d] # "-"}

\* C3: a manager's send_to_all does not raise; the mapping it returns has
\* exactly the registered device ids as keys, False for exactly the devices
\* whose send failed and True for the others; the send was started on every
\* registered device whichever of them failed.
C3_SendToAllCompleteMapping ==
    (mgr.op = "send_to_all" /\ BatchOver) =>
        /\ ~mgr.raised
        /\ Filled(mgr.results) = mgr.registered
        /\ \A d \in mgr.registered :
             mgr.results[d] = (IF d \in mgr.failing THEN "False" ELSE "True")
        /\ mgr.launched = mgr.registered

C3_Witness ==
    /\ mgr.op = "send_to_all"
    /\ BatchOver
    /\ Cardinality(mgr.registered) = 3
    /\ Cardinality(mgr.failing) = 1
    /\ Cardinality({d \in Devices : mgr.results[d] = "False"}) = 1
    /\ Cardinality({d \in Devices : mgr.results[d] = "True"}) = 2

GuardedEntries ==
    {"shutdown", "process_pipeline_result", "run_pipeline_and_send",
     "stop_all_devices", "get_all_device_status"}

C12_InitializeTrueIffConnected ==
    app.call = "initialize" => (app.ret = "True" <=> app.linked # {})

\* C13: after an initialize that got a valid config, whatever the connection
\* outcome, process_pipeline_result with a ctx that holds an emotion forwards
\* to the manager exactly once and returns the manager's mapping: one entry
\* per registered device, False for a device that is not connected.
C13_ForwardsOnceAfterInitialize ==
    app.call = "process_pipeline_result" /\ app.is_initialized /\ app.emotion =>
        /\ app.forwards = 1
        /\ app.ret = "results" =>
               \A d \in Range(app.controllers) :
                   /\ app.results[d] \in {"True", "False"}
                   /\ d \notin app.linked => app.results[d] = "False"

C15_UnregisteredLeavesManager ==
    /\ app.call = "unregister_device" /\ app.status # 404
    /\ app.is_initialized /\ app.connected_devices # {}
    => app.arg \notin Range(app.controllers)

\* C16: registered_devices never holds a device id twice; registering an id
\* that is present is answered 400 and unregistering one that is absent 404,
\* both leaving the list as it was; the other requests append the id or
\* take its one entry out.
C16_RegistryNoDuplicates ==
    [][LET old == app.registered_devices
           new == app'.registered_devices
           d == app'.arg
       IN /\ \A i, j \in DOMAIN new : new[i] = new[j] => i = j
          /\ app'.call = "register_device" =>
                IF d \in Range(old)
                THEN app'.status = 400 /\ new = old
                ELSE app'.status = 200 /\ new = Append(old, d)
          /\ app'.call = "unregister_device" =>
                IF d \in Range(old)
                THEN d \notin Range(new) /\ Len(new) = Len(old) - 1
                ELSE app'.status = 404 /\ new = old]_vars

\* A registration of an id the full list already holds was refused
C16_Witness ==
    /\ app.call = "register_device"
    /\ app.status = 400
    /\ app.arg \in Range(app.registered_devices)
    /\ Len(app.registered_devices) = MaxApiDevices

(***************************************************************************)
(* Claims about the vibration patterns                                     *)
(***************************************************************************)

\* C17: constructing a VibrationStep succeeds exactly when intensity is in
\* [0, 1] and duration_ms in [0, 10000]; constructing a VibrationPattern
\* succeeds exactly when steps is not empty, interval_ms is in [0, 10000]
\* and repeat_count in [1, 100]; what is constructed holds the arguments.
C17_ConstructionExactlyInBounds ==
    /\ vp.op = "VibrationStep" =>
          /\ vp.out # ValueError <=>
                 /\ 0 <= vp.in.intensity /\ vp.in.intensity <= 1000
                 /\ 0 <= vp.in.duration_ms /\ vp.in.duration_ms <= 10000
          /\ vp.out # ValueError =>
                 vp.out = [intensity |-> vp.in.intensity,
                           duration_ms |-> vp.in.duration_ms]
    /\ vp.op = "VibrationPattern" =>
          /\ vp.out # ValueError <=>
                 /\ Len(vp.in.steps) >= 1
                 /\ 0 <= vp.in.interval_ms /\ vp.in.interval_ms <= 10000
                 /\ 1 <= vp.in.repeat_count /\ vp.in.repeat_count <= 100
          /\ vp.out # ValueError =>
                 vp.out = [steps |-> vp.in.steps,
                           interval_ms |-> vp.in.interval_ms,
                           repeat_count |-> vp.in.repeat_count]

\* A step at both upper limits was constructed
C17_Witness ==
    /\ vp.op = "VibrationStep"
    /\ vp.in.intensity = 1000
    /\ vp.in.duration_ms = 10000
    /\ vp.out # ValueError

\* C18: from_dict(p.to_dict()) is p for every constructed pattern p (the
\* same steps in the same order, the same interval_ms and repeat_count), and
\* from_dict gives p both from the current field names (duration_ms,
\* interval_ms, repeat_count) and from the legacy ones (duration, interval,
\* repetitions).
C18_DictRoundTrip ==
    /\ vp.op = "round_trip" => vp.out = vp.in.p
    /\ vp.op = "from_dict" => vp.out = vp.in.p

\* A pattern of several steps with values that are not the defaults went
\* through to_dict and from_dict
C18_Witness ==
    /\ vp.op = "round_trip"
    /\ Len(vp.in.p.steps) >= 2
    /\ vp.in.p.steps[1] # vp.in.p.steps[2]
    /\ vp.in.p.interval_ms = 200
    /\ vp.in.p.repeat_count = 3
    /\ vp.out = vp.in.p

\* The pattern generate_pattern answers when no axis is dominant
Fallback ==
    [steps |-> <<[intensity |-> 500, duration_ms |-> 300]>>,
     interval_ms |-> 200,
     repeat_count |-> 1]

\* C19: generate_pattern(emotion, None) returns the fallback pattern (one
\* step of intensity 0.5 and 300 ms, interval 200 ms, repeat_count 1)
\* exactly when the four axes are all below the threshold 2.
C19_FallbackIffNoDominant ==
    vp.op = "generate_pattern" /\ vp.in.category = NoCategory =>
        (vp.out = Fallback <=>
            /\ vp.in.emotion.joy < 2 /\ vp.in.emotion.fun < 2
            /\ vp.in.emotion.anger < 2 /\ vp.in.emotion.sad < 2)

\* generate_pattern answered the fallback for joy=1, fun=1, anger=1, sad=1
C19_Witness ==
    /\ vp.op = "generate_pattern"
    /\ vp.in.category = NoCategory
    /\ vp.in.emotion = [joy |-> 1, fun |-> 1, anger |-> 1, sad |-> 1]
    /\ vp.out = Fallback

\* The axis is at or above the threshold and above the three other axes
SingleHighest(emotion, axis) ==
    /\ emotion[axis] >= 2
    /\ \A other \in {"joy", "fun", "anger", "sad"} \ {axis} :
           emotion[other] < emotion[axis]

\* C20: generate_pattern(emotion, None) on an emotion with a single highest
\* axis at or above the threshold returns the pattern of that axis's
\* category (joy -> joy, fun -> pleasure, anger -> anger, sad -> sorrow) at
\* that axis's value; anger=5 with the other axes 0 gives anger_pattern(5):
\* 4 steps, repeat_count 4, interval 30 ms.
C20_SingleHighestAxisPattern ==
    vp.op = "generate_pattern" /\ vp.in.category = NoCategory =>
        LET e == vp.in.emotion
        IN /\ SingleHighest(e, "joy") => vp.out = joy_pattern(e.joy)
           /\ SingleHighest(e, "fun") => vp.out = pleasure_pattern(e.fun)
           /\ SingleHighest(e, "anger") => vp.out = anger_pattern(e.anger)
           /\ SingleHighest(e, "sad") => vp.out = sorrow_pattern(e.sad)
           /\ e = [joy |-> 0, fun |-> 0, anger |-> 5, sad |-> 0] =>
                  /\ Len(vp.out.steps) = 4
                  /\ vp.out.repeat_count = 4
                  /\ vp.out.interval_ms = 30

\* generate_pattern answered anger=5 with the other axes 0
C20_Witness ==
    /\ vp.op = "generate_pattern"
    /\ vp.in.category = NoCategory
    /\ vp.in.emotion = [joy |-> 0, fun |-> 0, anger |-> 5, sad |-> 0]
    /\ vp.out = anger_pattern(5)
    /\ vp.out.interval_ms = 30

\* C21: a category override given as a Japanese label gives the pattern of
\* its English key, and with an override the intensity level is the axis of
\* that category (joy, anger, sad, fun), whatever the dominant axis is.
C21_LabelEqualsKey ==
    vp.op = "generate_pattern" =>
        LET e == vp.in.emotion
            c == vp.in.category
        IN /\ c \in {"joy", "ki"} => vp.out = joy_pattern(e.joy)
           /\ c \in {"anger", "do"} => vp.out = anger_pattern(e.anger)
           /\ c \in {"sorrow", "ai"} => vp.out = sorrow_pattern(e.sad)
           /\ c \in {"pleasure", "raku"} => vp.out = pleasure_pattern(e.fun)

\* The label of anger was given with an emotion whose dominant axis is joy
C21_Witness ==
    /\ vp.op = "generate_pattern"
    /\ vp.in.category = "do"
    /\ vp.in.emotion = [joy |-> 5, fun |-> 0, anger |-> 1, sad |-> 0]
    /\ vp.out = anger_pattern(1)
    /\ vp.out # anger_pattern(5)

AxisIndex(axis) ==
    CASE axis = "joy" -> 1 [] axis = "fun" -> 2 [] axis = "anger" -> 3 [] axis = "sad" -> 4

\* C23: get_dominant_emotions returns the axes at or above the threshold in
\* descending order of value, axes of the same value in the order joy, fun,
\* anger, sad; generate_pattern(emotion, None) takes the pattern of the
\* first axis that has the highest value.
C23_TieTakesFirstAxis ==
    vp.op = "generate_pattern" /\ vp.in.category = NoCategory =>
        LET e == vp.in.emotion
            d == get_dominant_emotions(e, 2)
            top == CHOOSE a \in {"joy", "fun", "anger", "sad"} :
                       \A b \in {"joy", "fun", "anger", "sad"} :
                           \/ e[b] < e[a]
                           \/ e[b] = e[a] /\ AxisIndex(a) <= AxisIndex(b)
        IN /\ {d[i][1] : i \in 1..Len(d)} = {a \in {"joy", "fun", "anger", "sad"} : e[a] >= 2}
           /\ \A i \in 1..Len(d) : d[i][2] = e[d[i][1]]
           /\ \A i, j \in 1..Len(d) :
                  i < j => \/ d[i][2] > d[j][2]
                           \/ d[i][2] = d[j][2] /\ AxisIndex(d[i][1]) < AxisIndex(d[j][1])
           /\ e[top] >= 2 =>
                  vp.out = CASE top = "joy" -> joy_pattern(e.joy)
                             [] top = "fun" -> pleasure_pattern(e.fun)
                             [] top = "anger" -> anger_pattern(e.anger)
                             [] top = "sad" -> sorrow_pattern(e.sad)

\* fun and sad share the highest value: the pleasure pattern was returned
C23_Witness ==
    /\ vp.op = "generate_pattern"
    /\ vp.in.category = NoCategory
    /\ vp.in.emotion = [joy |-> 0, fun |-> 4, anger |-> 2, sad |-> 4]
    /\ vp.out = pleasure_pattern(4)

\* C24: for every level sorrow_pattern returns 2 steps with repeat_count 2,
\* the second step's intensity max(first - 0.1, 0.5), and an interval of
\* 200 ms for the high tier (level >= 4), 300 ms for the other tiers.  The
\* code computes the 200 and then builds the pattern with base_interval.
C24_SorrowIntervalPerTier ==
    vp.op = "sorrow" =>
        /\ Len(vp.out.steps) = 2
        /\ vp.out.repeat_count = 2
        /\ vp.out.steps[2].intensity = Max(vp.out.steps[1].intensity - 100, 500)
        /\ vp.out.interval_ms = IF vp.in.intensity_level >= 4 THEN 200 ELSE 300

(***************************************************************************)
(* Claims about the WebSocket controller's connect and send_pattern        *)
(***************************************************************************)

\* C25: WebSocketController.connect probes GET /status before the WebSocket
\* upgrade: ws_connect is attempted only after the probe has answered 200,
\* a failing probe ends the connect with no upgrade attempted, and the
\* background loops are started only by the step in which the upgrade
\* succeeded, with connected set and the socket open.
C25_ProbeBeforeUpgrade ==
    [][variant = "ws" =>
          /\ pc' \in {"connect_upgrade", "re_upgrade"} /\ pc' # pc =>
                 /\ pc \in {"connect_get", "re_get"}
                 /\ ioCount' = ioCount + 1
                 /\ lastIo' = "ok"
          /\ pc \in {"connect_get", "re_get"} /\ ioCount' = ioCount + 1 /\ lastIo' = "fail" =>
                 /\ pc' = "done"
                 /\ result' # "True"
                 /\ ctl'.ws = ctl.ws
                 /\ ctl'.connected = ctl.connected
                 /\ bg' = bg
          /\ bg'.hb = "upgrade" /\ bg.hb # "upgrade" => bg.hb = "get"
          /\ bg'.hbLive > bg.hbLive \/ bg'.monLive > bg.monLive =>
                 /\ ctl'.connected
                 /\ ctl'.ws = "open"
                 /\ \/ /\ pc \in {"connect_upgrade", "re_upgrade"}
                       /\ ioCount' = ioCount + 1
                       /\ lastIo' = "ok"
                    \/ bg.hb = "upgrade"]_vars

\* connect() returned True after the probe and the upgrade, both loops running
C25_Witness ==
    /\ variant = "ws"
    /\ opName = "connect"
    /\ pc = "done"
    /\ result = "True"
    /\ ioCount = 2
    /\ ctl.connected
    /\ bg.hbLive = 1
    /\ bg.monLive = 1

\* The caller's method made a transport call in this step
CallerIo == ioCount' = ioCount + 1

\* C29: one call of WebSocketController.send_pattern puts the pattern frame
\* on the socket at most retry_count times; it returns True on the first
\* response with status "ok", and only then; an attempt that raised with
\* the socket gone is followed by disconnect() and connect() before any
\* other attempt, and a reconnect that fails ends the call with False.
C29_WsSendPatternAttempts ==
    [][variant = "ws" /\ opName' = "send_pattern" =>
          /\ posts' <= retry_count
          /\ pc = "send_recv" /\ CallerIo /\ lastIo' = "ok" =>
                 pc' = "done" /\ result' = "True" /\ posts' = posts
          /\ pc' = "done" /\ pc # "done" /\ ~raised' =>
                 /\ result' \in {"True", "False"}
                 /\ result' = "True" => pc = "send_recv" /\ CallerIo /\ lastIo' = "ok"
          /\ pc = "send_frame" /\ CallerIo /\ lastIo' = "fail" /\ SocketGone(ctl) =>
                 pc' = "re_get" \/ raised'
          /\ pc' = "re_get" /\ pc # "re_get" =>
                 /\ pc \in {"send_frame", "send_recv"}
                 /\ SocketGone(ctl)
                 /\ lastIo' = "fail"
                 /\ ~ctl'.connected
          /\ pc \in {"re_get", "re_upgrade"} /\ CallerIo /\ lastIo' = "fail" =>
                 pc' = "done" /\ (result' = "False" \/ raised') /\ posts' = posts
          /\ pc = "re_upgrade" /\ CallerIo /\ lastIo' = "ok" =>
                 /\ ctl'.connected
                 /\ IF attempt < retry_count - 1
                    THEN pc' = "retry_sleep"
                    ELSE pc' = "done" /\ result' = "False"]_vars

\* The first attempt failed on a socket that was gone, the reconnect
\* succeeded and the second attempt was acknowledged
C29_Witness ==
    /\ variant = "ws"
    /\ opName = "send_pattern"
    /\ pc = "done"
    /\ result = "True"
    /\ posts = 2
    /\ ioCount = 5

\* The coroutines that are inside a receive on the controller's socket: the
\* caller's send_pattern, stop_vibration or get_status, the heartbeat, the
\* status monitor
Receivers ==
    (IF pc \in {"send_recv", "cmd_recv"} THEN {"caller"} ELSE {})
        \cup (IF bg.hb = "recv" THEN {"heartbeat"} ELSE {})
        \cup (IF bg.mon = "recv" THEN {"monitor"} ELSE {})

\* C27: on a connected WebSocketController at most one coroutine waits for
\* an inbound frame at any time, so that the response to a request goes to
\* its requester and never to the status monitor or to another requester.
\* Nothing in the code serialises the receives: the monitor sits in
\* ws.receive() while a requester calls ws.receive_json().
C27_SingleReceiver ==
    variant = "ws" /\ ctl.connected => Cardinality(Receivers) <= 1

(***************************************************************************)
(* Claims about a manager driven by two coroutines                         *)
(***************************************************************************)

\* C26: a registration or removal of a controller at an await of a batch
\* method in progress does not abort or corrupt the batch: it returns
\* without raising, with one entry for each device that was registered when
\* it was called.  WebSocketControllerManager and SerialControllerManager
\* iterate self.controllers itself across their awaits, so a registration
\* makes the loop raise RuntimeError.
C26_InterleavingHarmless ==
    BatchOver =>
        /\ ~mgr.raised
        /\ Filled(mgr.results) = mgr.registered

(***************************************************************************)
(* Claims about initialize and shutdown over the process-wide manager      *)
(***************************************************************************)

\* C28: over any sequence of initialize and shutdown calls: an initialize
\* that runs (is_initialized was False) and leaves is_initialized True leaves
\* connected_devices equal to the ids of its own configs whose controller
\* is connected, all registered in the manager; a shutdown that returns
\* True leaves connected_devices empty and is_initialized False; and an
\* initialize after such a shutdown answers as the same call does on a new
\* integration.  The manager keeps the controllers of earlier calls, and
\* connected_devices keeps the ids of an initialize that raised.
C28_InitializeShutdownCycle ==
    [][/\ \A cfgs \in ConfigLists, ok \in SUBSET ApiDevices :
            ~app.is_initialized /\ app' = Initialize(app, cfgs, ok) =>
                /\ app'.is_initialized =>
                       /\ app'.connected_devices = ConfigIds(cfgs) \cap app'.linked
                       /\ app'.connected_devices \subseteq Range(app'.controllers)
                /\ app.call = "shutdown" /\ app.ret = "True" =>
                       LET first == Initialize(NewApp, cfgs, ok)
                       IN /\ app'.ret = first.ret
                          /\ app'.is_initialized = first.is_initialized
                          /\ app'.connected_devices = first.connected_devices
       /\ app'.call = "shutdown" /\ app'.ret = "True" =>
            /\ app'.connected_devices = {}
            /\ ~app'.is_initialized]_vars

(***************************************************************************)
(* Claims about run_pipeline                                               *)
(***************************************************************************)

\* The place of a step in the order learner, extraction, classification
StepRank(step) ==
    IF step = "predict" THEN 1 ELSE IF step = "extract" THEN 2 ELSE 3

\* C30: run_pipeline never raises and begins its steps in order; the
\* classification step begins only once ctx.emotion is set, by the learner
\* (then no extraction is begun and is_learned_response is True) or by the
\* extraction agent; once it has returned, a failed step was the last one
\* begun, an error leaves emotion_category empty, and the error is None
\* exactly when the emotion was set and the classification completed.
C30_RunPipelineStepsInOrder ==
    /\ ~rp.raised
    /\ \A i, j \in DOMAIN rp.started :
         i < j => StepRank(rp.started[i]) < StepRank(rp.started[j])
    /\ "classify" \in Range(rp.started) => rp.emotion # "None"
    /\ rp.emotion = "learned" =>
         rp.is_learned_response /\ "extract" \notin Range(rp.started)
    /\ rp.emotion = "extracted" =>
         ~rp.is_learned_response /\ "extract" \in rp.completed
    /\ rp.pc \in {"returned", "answered"} =>
         /\ rp.error # "None" =>
              /\ rp.emotion_category = ""
              /\ rp.started # <<>>
              /\ rp.started[Len(rp.started)] \notin rp.completed
         /\ rp.error = "None" <=>
              rp.emotion # "None" /\ "classify" \in rp.completed

\* The extraction agent set the emotion and the classification failed
C30_Witness ==
    /\ rp.pc = "returned"
    /\ rp.emotion = "extracted"
    /\ rp.started = <<"predict", "extract", "classify">>
    /\ rp.error = "Exception"
    /\ rp.emotion_category = ""

====
